---- MODULE Spec2Model ----
(***************************************************************************)
(* A model of the LLM agent orchestration core: the Agent (constructor,    *)
(* send, sendWithTools, executeTools, trimHistory), the shared module      *)
(* configuration, and the line-oriented stream decoder of the transport    *)
(* client.                                                                 *)
(*                                                                         *)
(* The specifications share the variables:                                 *)
(*   Spec        the turns of one Agent: history, commit and trim, against *)
(*               an endpoint that asks for at most one tool per response   *)
(*   SpecTools   one turn of one Agent against an endpoint that asks for   *)
(*               every batch of tool calls up to MaxBatch                  *)
(*   SpecCtor    construction of Agents from arbitrary option records      *)
(*   SpecPair    the turns of one Agent with the calls of a second Agent   *)
(*               of the same process interleaved                           *)
(*   SpecTransport                                                         *)
(*               one transport call against the clock                      *)
(*   SpecStream  the stream decoder fed a text cut into fragments          *)
(*   SpecOptions the turns of one Agent with updateOptions calls between   *)
(*               and during them                                           *)
(*   SpecRoutes  the session maps of the two routers: chat requests,       *)
(*               their answers and DELETE requests                         *)
(*   SpecOverlap the turns of one Agent with a second send call issued on  *)
(*               it while a first one is suspended                         *)
(*   SpecSendStream                                                        *)
(*               one sendStream or sendStreamWithCallbacks call on an      *)
(*               Agent, fed by the stream decoder, with turns of other     *)
(*               calls and clearHistory around it                          *)
(*   SpecRegistry                                                          *)
(*               one turn of one Agent, its tools executed one await at a  *)
(*               time, with addTool and removeTool calls while it is       *)
(*               suspended                                                 *)
(***************************************************************************)
EXTENDS Integers, Sequences, FiniteSets, TLC

(***************************************************************************)
(* Bounds of the model.                                                    *)
(***************************************************************************)
MaxHist == 3        \* largest maxHistoryLength an Agent is constructed with
MaxIter == 2        \* largest maxToolIterations an Agent is constructed with
MaxBatch == 2       \* most tool calls in one model response
MaxTurns == 3       \* most send calls issued on the Agent
MaxLines == 2       \* most lines in an upstream text
TimeoutTicks == 3   \* largest config.timeout, in ticks of the clock
MaxUpdates == 2     \* most updateOptions calls issued on the Agent
MaxRequests == 3    \* most chat requests the route layer receives
MaxOtherTurns == 2  \* most turns other calls commit around a streaming call

(***************************************************************************)
(* Program constants.  Temperatures are in tenths (0.7 is 7).              *)
(***************************************************************************)
DefaultMaxHistoryLength == 50
DefaultMaxToolIterations == 10
DefaultTemperature == 7
DefaultMaxTokens == 4096
TemperatureMin == 0
TemperatureMax == 20

FriendDataHeader == "\n\n=== CURRENT FRIEND DATA ===\n"

VARIABLES
    config,             \* the module-level config object (config.ts)
    systemMessage,      \* Agent.systemMessage
    friendContext,      \* Agent.friendContext
    conversation,       \* Agent.conversation
    maxHistoryLength,   \* Agent.maxHistoryLength
    maxToolIterations,  \* Agent.maxToolIterations
    tools,              \* Agent.tools: the names registered in the map
    ctor,               \* the last constructor call: its options and outcome
    endpointMaxBatch,   \* most tool calls the remote endpoint asks for at once
    sendsLeft,          \* send calls the caller has yet to issue
    pc,                 \* the send call: "idle" (none), "awaiting" (suspended
                        \* on client.chat), "settled" (it just returned or threw)
    turn,               \* number of send calls issued so far
    userMessage,        \* the argument of the current send call
    currentMessages,    \* sendWithTools' working message list
    iterations,         \* sendWithTools' iteration counter
    requests,           \* transport requests issued by the current send call
    rounds,             \* executeTools calls made by the current send call
    lastExec,           \* the last executeTools call: its batch and outcome
    sendResult,         \* how the last send call ended
    histBefore,         \* getHistory() when the current send call started
    outbound,           \* the last request body: its sampling fields and the
                        \* names of the tools it advertises
    other,              \* a second Agent of the same process
    transport,          \* one fetchWithTimeout call and the body read after it
    streamText,         \* the text the upstream delivers
    streamPos,          \* how much of it has been read
    decoder,            \* the decoder's buffer and what it has produced
    streamPc,           \* "idle" | "reading" | "done"
    cut,                \* where a fragment boundary fell: "none", inside a
                        \* "line", or inside the "marker" of a data record
    lastUpdate,         \* the updateOptions calls: how many the caller has
                        \* yet to issue, the options of the last one and
                        \* whether it threw
    toolRun,            \* the executeTools call under way, tool by tool
    routes,             \* the route layer: its session map, the Agents it
                        \* created, the requests it is serving
    second,             \* a second send call on the same Agent, issued
                        \* while the first is suspended
    streaming           \* a sendStream or sendStreamWithCallbacks call, and
                        \* the insertion number of every message of the
                        \* history

agentVars == <<systemMessage, friendContext, conversation, maxHistoryLength,
               maxToolIterations, tools>>
callVars == <<pc, turn, userMessage, currentMessages, iterations, requests,
              rounds, lastExec, sendResult, histBefore, outbound>>
streamVars == <<streamText, streamPos, decoder, streamPc, cut>>
laterVars == <<lastUpdate, toolRun, routes, second, streaming>>
envVars == <<ctor, endpointMaxBatch, other, transport, streamVars, laterVars>>
vars == <<config, agentVars, envVars, sendsLeft, callVars>>

(***************************************************************************)
(* Values.                                                                 *)
(***************************************************************************)
\* An optional field of an options object: present with a value, or undefined.
Some(v) == [present |-> TRUE, v |-> v]
NoneNum == [present |-> FALSE, v |-> 0]
NoneStr == [present |-> FALSE, v |-> ""]

\* Message of schemas.ts; fields a message does not carry are "" / <<>>.
Msg(role, content) ==
    [role |-> role, content |-> content, tool_calls |-> <<>>, tool_call_id |-> ""]

\* JS truthiness of a string and of a number.
TruthyStr(s) == s # ""
TruthyNum(n) == n # 0

(***************************************************************************)
(* Configuration and construction (config.ts, schemas.ts, Agent            *)
(* constructor).                                                           *)
(***************************************************************************)
\* hasApiKey(): config.apiKey.length > 0
hasApiKey(cfg) == cfg.apiKey # ""

\* AgentOptionsSchema.safeParse(options).success: every field is optional;
\* temperature is within [0, 2], the three counts are positive.
AgentOptionsSchemaOK(options) ==
    /\ options.temperature.present =>
           /\ options.temperature.v >= TemperatureMin
           /\ options.temperature.v <= TemperatureMax
    /\ options.maxTokens.present => options.maxTokens.v > 0
    /\ options.maxHistoryLength.present => options.maxHistoryLength.v > 0
    /\ options.maxToolIterations.present => options.maxToolIterations.v > 0

\* The options object with every field undefined: the {} the constructor
\* substitutes when validation fails.
EmptyOptions ==
    [systemMessage |-> NoneStr, temperature |-> NoneNum, maxTokens |-> NoneNum,
     maxHistoryLength |-> NoneNum, maxToolIterations |-> NoneNum]

\* const validated = validation.success ? validation.data : {}
ValidatedOptions(options) ==
    IF AgentOptionsSchemaOK(options) THEN options ELSE EmptyOptions

\* x || d for an optional number and for an optional string
OrDefaultNum(opt, d) == IF opt.present /\ TruthyNum(opt.v) THEN opt.v ELSE d
OrDefaultStr(opt, d) == IF opt.present /\ TruthyStr(opt.v) THEN opt.v ELSE d

\* The fields of the Agent the constructor builds.  `threw` tells whether
\* the constructor failed: no path of it throws.
AgentConstructor(options, toolNames) ==
    LET validated == ValidatedOptions(options) IN
    [threw |-> FALSE,
     systemMessage |-> OrDefaultStr(validated.systemMessage, ""),
     friendContext |-> "",
     conversation |-> <<>>,
     maxHistoryLength |->
         OrDefaultNum(validated.maxHistoryLength, DefaultMaxHistoryLength),
     maxToolIterations |->
         OrDefaultNum(validated.maxToolIterations, DefaultMaxToolIterations),
     tools |-> toolNames]

\* The module configuration after the constructor ran: it writes the
\* validated temperature and maxTokens, when truthy, into the shared object.
ConstructorConfig(options, cfg) ==
    LET validated == ValidatedOptions(options) IN
    [cfg EXCEPT
        !.temperature = OrDefaultNum(validated.temperature, @),
        !.maxTokens = OrDefaultNum(validated.maxTokens, @)]

\* The config object built at import: the environment's values or the
\* fixed defaults (apiKey '' when none is set).
ImportedConfig(apiKey) ==
    [apiKey |-> apiKey, temperature |-> DefaultTemperature,
     maxTokens |-> DefaultMaxTokens]

(***************************************************************************)
(* Building the outbound message list and trimming (agent.ts).             *)
(***************************************************************************)
\* fullContext: the system text, plus the friend data block when there is one
FullContext(sys, fc) ==
    IF TruthyStr(fc) THEN sys \o FriendDataHeader \o fc ELSE sys

\* The messages array send builds: the system message when fullContext is
\* non-empty, the stored conversation, the new user message.
BuildMessages(sys, fc, conv, message) ==
    (IF TruthyStr(FullContext(sys, fc))
        THEN <<Msg("system", FullContext(sys, fc))>> ELSE <<>>)
    \o conv \o <<Msg("user", message)>>

\* Array.prototype.slice(-n) for n >= 0: the last n elements; slice(-0) is
\* slice(0), the whole array.
SliceLast(arr, n) ==
    IF n = 0 \/ n >= Len(arr) THEN arr
    ELSE SubSeq(arr, Len(arr) - n + 1, Len(arr))

\* trimHistory(): the conversation it leaves.
TrimHistory(conv, sys, fc, maxHist) ==
    LET hasSystemContext == TruthyStr(sys) \/ TruthyStr(fc)
        maxMessages == IF hasSystemContext THEN maxHist - 1 ELSE maxHist
        systemMsg == IF hasSystemContext
                        THEN <<Msg("system", FullContext(sys, fc))>> ELSE <<>>
    IN  IF Len(conv) > maxMessages
           THEN systemMsg \o SliceLast(conv, maxMessages)
           ELSE conv

\* A send that persisted its working list: every message after the ones it
\* started from, then the final answer.
CommitWorkingList(conv, working, message, response, sys, fc, maxHist) ==
    LET start == Len(BuildMessages(sys, fc, conv, message)) IN
    TrimHistory(conv \o <<Msg("user", message)>>
                     \o SubSeq(working, start + 1, Len(working))
                     \o <<Msg("assistant", response)>>,
                sys, fc, maxHist)

\* send, after sendWithTools returned `response`: the two pushes and the trim.
\* `working` is sendWithTools' message list, which send never sees.
CommitTurn(conv, working, message, response, sys, fc, maxHist) ==
    TrimHistory(conv \o <<Msg("user", message), Msg("assistant", response)>>,
                sys, fc, maxHist)

\* A send that pushed the user message before its request, as sendStream
\* does, would leave it behind when the request fails.
ConversationOnThrowPushedEarly(conv, message) ==
    Append(conv, Msg("user", message))

\* The conversation when send leaves by an exception: nothing was pushed
\* before sendWithTools returned.
ConversationOnThrow(conv, message) == conv

(***************************************************************************)
(* Tools (model.ts) and executeTools (agent.ts).                           *)
(***************************************************************************)
CalculatorArgs == "{\"expression\":\"6*7\"}"
ShoppingArgs == "{\"searchTerm\":\"lego\"}"
OtherArgs == "{\"city\":\"Oslo\"}"
BrokenArgs == "{\"expression\":"

\* JSON.parse of an arguments string: the value, or a SyntaxError.
JSONParse(text) ==
    CASE text = CalculatorArgs -> [ok |-> TRUE, value |-> [expression |-> "6*7"]]
      [] text = ShoppingArgs -> [ok |-> TRUE, value |-> [searchTerm |-> "lego"]]
      [] text = OtherArgs -> [ok |-> TRUE, value |-> [city |-> "Oslo"]]
      [] OTHER -> [ok |-> FALSE, value |-> [syntaxError |-> text]]

\* tool.inputSchema.safeParse(args).success for the registered tools:
\* calculator requires `expression`, shopping_search requires `searchTerm`.
InputSchemaOK(toolName, args) ==
    CASE toolName = "calculator" -> "expression" \in DOMAIN args
      [] toolName = "shopping_search" -> "searchTerm" \in DOMAIN args
      [] OTHER -> FALSE

\* parseResult.error.message for arguments the schema rejects: the issue of
\* the required field that is missing.
InputSchemaError(toolName, args) ==
    CASE toolName = "calculator" -> "expression: Required"
      [] toolName = "shopping_search" -> "searchTerm: Required"
      [] OTHER -> ""

\* A tool result value: a JSON value with its JSON.stringify text.
JSONNull == [type |-> "null", text |-> "null"]
JSONObject(text) == [type |-> "object", text |-> text]

\* JSON.stringify of a value: a string is quoted, null is "null".
JSONStringify(value) ==
    IF value.type = "string" THEN "\"" \o value.text \o "\"" ELSE value.text

\* tool.execute(input): calculator answers (it catches its own errors),
\* shopping_search rejects when its search service throws.
ToolExecute(toolName, args) ==
    CASE toolName = "calculator" ->
             [threw |-> FALSE,
              result |-> JSONObject("{\"result\":42,\"expression\":\"6*7\"}"),
              message |-> ""]
      [] OTHER -> [threw |-> TRUE, result |-> JSONNull,
                   message |-> "search service unavailable"]

ToolResult(toolCall, success, result, error) ==
    [toolCallId |-> toolCall.id, toolName |-> toolCall.function.name,
     success |-> success, result |-> result, error |-> error]

\* A loop body that hands the parsed arguments to the tool without
\* validating them.
ExecuteOneUnvalidated(toolCall, registry, acc) ==
    LET toolName == toolCall.function.name
        parsed == JSONParse(toolCall.function.arguments)
    IN  IF ~parsed.ok THEN [acc EXCEPT !.threw = TRUE]
        ELSE IF toolName \notin registry
            THEN [acc EXCEPT !.results = Append(@,
                     ToolResult(toolCall, FALSE, JSONNull,
                                "Tool '" \o toolName \o "' not found"))]
        ELSE LET out == ToolExecute(toolName, parsed.value) IN
             [acc EXCEPT
                 !.invoked = Append(@, toolCall.id),
                 !.results = Append(@,
                     IF out.threw
                        THEN ToolResult(toolCall, FALSE, JSONNull, out.message)
                        ELSE ToolResult(toolCall, TRUE, out.result, ""))]

\* One pass of executeTools' loop body for toolCalls[i].  `acc` holds the
\* results pushed so far, the tools invoked so far, and whether an
\* exception left the function.  JSON.parse runs first, outside the try.
ExecuteOne(toolCall, registry, acc) ==
    LET toolName == toolCall.function.name
        parsed == JSONParse(toolCall.function.arguments)
    IN  IF ~parsed.ok THEN [acc EXCEPT !.threw = TRUE]
        ELSE IF toolName \notin registry
            THEN [acc EXCEPT !.results = Append(@,
                     ToolResult(toolCall, FALSE, JSONNull,
                                "Tool '" \o toolName \o "' not found"))]
        ELSE IF ~InputSchemaOK(toolName, parsed.value)
            THEN [acc EXCEPT !.results = Append(@,
                     ToolResult(toolCall, FALSE, JSONNull,
                                "Invalid arguments: "
                                    \o InputSchemaError(toolName, parsed.value)))]
        ELSE LET out == ToolExecute(toolName, parsed.value) IN
             [acc EXCEPT
                 !.invoked = Append(@, toolCall.id),
                 !.results = Append(@,
                     IF out.threw
                        THEN ToolResult(toolCall, FALSE, JSONNull, out.message)
                        ELSE ToolResult(toolCall, TRUE, out.result, ""))]

RECURSIVE ExecuteFrom(_, _, _, _)
ExecuteFrom(toolCalls, i, registry, acc) ==
    IF i > Len(toolCalls) \/ acc.threw THEN acc
    ELSE ExecuteFrom(toolCalls, i + 1, registry,
                     ExecuteOne(toolCalls[i], registry, acc))

\* executeTools(toolCalls): [threw, results, invoked].  When threw is TRUE
\* the caller receives the exception and no results.
ExecuteTools(toolCalls, registry) ==
    ExecuteFrom(toolCalls, 1, registry,
                [threw |-> FALSE, results |-> <<>>, invoked |-> <<>>])

\* The tool-role message sendWithTools appends for one result.
ToolMessage(result) ==
    [role |-> "tool",
     content |-> IF result.result.type = "string"
                    THEN result.result.text ELSE JSONStringify(result.result),
     tool_calls |-> <<>>,
     tool_call_id |-> result.toolCallId]

\* A loop that appended the tool messages last result first.
AppendToolRoundReversed(messages, content, toolCalls, results) ==
    messages
    \o <<[role |-> "assistant", content |-> content,
          tool_calls |-> toolCalls, tool_call_id |-> ""]>>
    \o [i \in 1..Len(results) |-> ToolMessage(results[Len(results) + 1 - i])]

\* The working list after a tool-call iteration: the assistant message with
\* its tool calls, then one tool message per result, in result order.
AppendToolRound(messages, content, toolCalls, results) ==
    messages
    \o <<[role |-> "assistant", content |-> content,
          tool_calls |-> toolCalls, tool_call_id |-> ""]>>
    \o [i \in 1..Len(results) |-> ToolMessage(results[i])]

(***************************************************************************)
(* The transport: what one client.chat call can produce (client.ts).       *)
(***************************************************************************)
RegisteredTools == {"calculator", "shopping_search"}

\* The (name, arguments) pairs a model response may ask for.  weather_v2 is
\* registered nowhere.
ToolCallKinds ==
    {[name |-> "calculator", arguments |-> CalculatorArgs],
     [name |-> "calculator", arguments |-> OtherArgs],
     [name |-> "calculator", arguments |-> BrokenArgs],
     [name |-> "shopping_search", arguments |-> ShoppingArgs],
     [name |-> "weather_v2", arguments |-> OtherArgs],
     [name |-> "weather_v2", arguments |-> BrokenArgs]}

\* ToolCall of schemas.ts; ids are unique within one response.
ToolCall(i, kind) ==
    [id |-> "call_" \o ToString(i), type |-> "function",
     function |-> [name |-> kind.name, arguments |-> kind.arguments]]

\* The batches of exactly n tool calls, for every n up to MaxBatch: a
\* response asks for each (name, arguments) pair at most once.
BatchesOfLen ==
    [n \in 0..MaxBatch |->
        {[i \in 1..n |-> ToolCall(i, f[i])] :
            f \in {g \in [1..n -> ToolCallKinds] :
                      \A i, j \in 1..n : i # j => g[i] # g[j]}}]

\* The batches of at most n tool calls.
Batches(n) == UNION {BatchesOfLen[k] : k \in 0..n}

\* A raw tool_calls array that fails z.array(ToolCallSchema): its entry
\* lacks type 'function'.
MalformedToolCalls ==
    <<[id |-> "call_1", type |-> "",
       function |-> [name |-> "calculator", arguments |-> CalculatorArgs]]>>

\* z.array(ToolCallSchema).safeParse(raw).success
ToolCallsSchemaOK(raw) == \A i \in 1..Len(raw) : raw[i].type = "function"

\* What the network and the remote endpoint do with one request.
\*   status      "ok" | "http_error" | "timeout" | "bad_shape" (the body
\*               fails ChatResponseSchema)
\*   hasChoice   choices[0] exists
\*   content     choices[0].message.content
\*   tool_calls  the raw choices[0].message.tool_calls array
HttpFailures == {"http_error", "timeout", "bad_shape"}

HttpOutcome(status, hasChoice, content, toolCalls) ==
    [status |-> status, hasChoice |-> hasChoice, content |-> content,
     tool_calls |-> toolCalls]

\* MiniMaxClient.chat: throws on a failed fetch, a non-ok status or a body of
\* the wrong shape; otherwise the parsed response, with tool_calls taken from
\* choices[0].message when the raw array validates (undefined otherwise).
ClientChat(http) ==
    CASE http.status = "timeout" ->
             [threw |-> TRUE, error |-> "Request timed out",
              hasChoice |-> FALSE, content |-> "", tool_calls |-> <<>>]
      [] http.status = "http_error" ->
             [threw |-> TRUE, error |-> "MiniMax API error",
              hasChoice |-> FALSE, content |-> "", tool_calls |-> <<>>]
      [] http.status = "bad_shape" ->
             [threw |-> TRUE, error |-> "ZodError",
              hasChoice |-> FALSE, content |-> "", tool_calls |-> <<>>]
      [] OTHER ->
             [threw |-> FALSE, error |-> "",
              hasChoice |-> http.hasChoice, content |-> http.content,
              tool_calls |-> IF http.hasChoice
                                   /\ ToolCallsSchemaOK(http.tool_calls)
                                THEN http.tool_calls ELSE <<>>]

MaxIterationsError(limit) ==
    "Max tool iterations (" \o ToString(limit) \o ") exceeded"

\* The exception of JSON.parse on an arguments string cut short.
ArgumentsSyntaxError == "SyntaxError: Unexpected end of JSON input"

\* A request body.  The Agent's requests carry neither temperature nor
\* maxTokens, so both come from the module configuration at the moment the
\* body is built; the tools are those in the registry at the head of the
\* loop iteration that builds the request.
RequestBody(cfg, registry) ==
    [sent |-> TRUE, temperature |-> cfg.temperature,
     max_tokens |-> cfg.maxTokens, tools |-> registry]

(***************************************************************************)
(* Initial states.                                                         *)
(***************************************************************************)
NoExec == [called |-> FALSE, batch |-> <<>>, threw |-> FALSE,
           results |-> <<>>, invoked |-> <<>>]
NoResult == [status |-> "none", value |-> "", error |-> ""]
NoRequest == [sent |-> FALSE, temperature |-> 0, max_tokens |-> 0,
              tools |-> {}]

\* No second Agent has been constructed.
NoAgent ==
    [constructed |-> FALSE, systemMessage |-> "", conversation |-> <<>>,
     maxHistoryLength |-> 0, maxToolIterations |-> 0, tools |-> {}]

\* No transport call is under way.
NoTransport ==
    [kind |-> "none", phase |-> "idle", timeout |-> 0, timer |-> FALSE,
     elapsed |-> 0, reads |-> 0, error |-> ""]

\* The state `new Agent(options)` leaves, no send call issued yet.
Constructed(options, apiKey) ==
    LET agent == AgentConstructor(options, RegisteredTools) IN
    /\ config = ConstructorConfig(options, ImportedConfig(apiKey))
    /\ ctor = [done |-> TRUE, options |-> options, threw |-> agent.threw]
    /\ systemMessage = agent.systemMessage
    /\ friendContext = agent.friendContext
    /\ conversation = agent.conversation
    /\ maxHistoryLength = agent.maxHistoryLength
    /\ maxToolIterations = agent.maxToolIterations
    /\ tools = agent.tools

\* No call of the kinds followed by the later specifications was made.
NoUpdate == [left |-> 0, options |-> EmptyOptions, threw |-> FALSE]

\* No executeTools call is under way:
\*   batch, content  the tool calls and the content of the response
\*   i               the request the loop is at
\*   acc             the results pushed and the tools invoked so far
\*   running         the ids of the requests whose tool is executing
\*   started         the ids of the requests whose tool was started, in order
NoBatch ==
    [active |-> FALSE, content |-> "", batch |-> <<>>, i |-> 0,
     acc |-> [threw |-> FALSE, results |-> <<>>, invoked |-> <<>>],
     running |-> {}, started |-> <<>>]

\* The keys of the session maps: the fallback key of each router and one
\* key a client names itself.
SessionKeys == {"default", "Ann", "s1"}

\* A router module just loaded: its map is empty.
\*   layer     "agent" (routes of /api/agent) or "chat" (routes of /api/chat)
\*   agents    the session map: for each key the Agent it holds, 0 for none
\*   pool      the Agents created so far, an Agent being named by its index
\*   inflight  the chat requests suspended on agent.send
\*   issued    the number of chat requests received
\*   last      the last request received or answered
NoRouteEvent ==
    [route |-> "none", key |-> "", status |-> 0, agent |-> 0,
     created |-> FALSE]
NoRoutes ==
    [layer |-> "none", agents |-> [k \in SessionKeys |-> 0], pool |-> <<>>,
     inflight |-> {}, issued |-> 0, last |-> NoRouteEvent]

\* No second send call was issued:
\*   pc         "idle" | "awaiting" | "settled"
\*   messages   the message list the call built before its request
\*   history    this.conversation when the call started
\*   during     the turn of the first call during which it started
\*   firstDone  whether the first call had returned when it committed
\*   result     how it ended
NoSecond ==
    [pc |-> "idle", messages |-> <<>>, history |-> <<>>, during |-> 0,
     firstDone |-> FALSE, result |-> NoResult]

\* No streaming call was made:
\*   phase      "idle" | "fetch" | "reading" | "ended" (the call returned)
\*              | "threw" (the call threw)
\*   method     "sendStream" | "sendStreamWithCallbacks"
\*   onError    whether the caller passed an error callback
\*   full       the text accumulated from the chunks received
\*   base       this.conversation before the two pushes
\*   own        the insertion number of the assistant message it pushed
\*   ids        the insertion number of each message of this.conversation
\*   log        every message ever inserted, as it was inserted
\*   others     the turns other calls committed
\*   disturbed  another call wrote the history since the two pushes
\*   failed     the transport call or the stream failed
\*   reported   the error handed to the error callback
\*   error      the error thrown to the caller
\*   trimmed    trimHistory ran for this turn
NoStreaming ==
    [phase |-> "idle", method |-> "none", onError |-> FALSE, full |-> "",
     base |-> <<>>, own |-> 0, ids |-> <<>>, log |-> <<>>, others |-> 0,
     disturbed |-> FALSE, failed |-> FALSE, reported |-> "", error |-> "",
     trimmed |-> FALSE]

LaterIdle ==
    /\ lastUpdate = NoUpdate
    /\ toolRun = NoBatch
    /\ routes = NoRoutes
    /\ second = NoSecond
    /\ streaming = NoStreaming

StreamIdle ==
    /\ streamText = <<>>
    /\ streamPos = 0
    /\ decoder = [buffer |-> <<>>, chunks |-> <<>>, parsed |-> <<>>,
                  returned |-> FALSE]
    /\ streamPc = "idle"
    /\ cut = "none"

CallIdle ==
    /\ pc = "idle"
    /\ turn = 0
    /\ userMessage = ""
    /\ currentMessages = <<>>
    /\ iterations = 0
    /\ requests = 0
    /\ rounds = 0
    /\ lastExec = NoExec
    /\ sendResult = NoResult
    /\ histBefore = <<>>
    /\ outbound = NoRequest

\* An Agent constructed from valid options within the model's bounds, the
\* caller about to issue up to MaxTurns send calls.
Init ==
    /\ endpointMaxBatch = 1
    /\ other = NoAgent
    /\ transport = NoTransport
    /\ LaterIdle
    /\ sendsLeft = MaxTurns
    /\ \E apiKey \in {"", "key"}, sys \in {NoneStr, Some("S")},
          mh \in 1..MaxHist, mi \in 1..MaxIter :
          Constructed([systemMessage |-> sys, temperature |-> NoneNum,
                       maxTokens |-> NoneNum, maxHistoryLength |-> Some(mh),
                       maxToolIterations |-> Some(mi)], apiKey)
    /\ CallIdle
    /\ StreamIdle

(***************************************************************************)
(* Agent.send and Agent.sendWithTools, one action per stretch of code      *)
(* between two suspension points.                                          *)
(***************************************************************************)
\* The text of the n-th send call and of the answers the endpoint gives it.
UserText(n) == "u" \o ToString(n)
AnswerText(n) == "a" \o ToString(n)

\* send leaves by an exception: the locals are gone, the error reaches the
\* caller.
Throw(error) ==
    /\ pc' = "settled"
    /\ sendResult' = [status |-> "error", value |-> "", error |-> error]
    /\ conversation' = ConversationOnThrow(conversation, userMessage')
    /\ currentMessages' = <<>>
    /\ iterations' = 0
    /\ UNCHANGED outbound

\* The head of sendWithTools' while loop with the counter at `its`: the next
\* request goes out, or the loop is exhausted.
LoopHead(its, messages) ==
    IF its < maxToolIterations
       THEN /\ pc' = "awaiting"
            /\ requests' = requests + 1
            /\ outbound' = RequestBody(config, tools)
            /\ currentMessages' = messages
            /\ iterations' = its
            /\ UNCHANGED <<conversation, sendResult>>
       ELSE /\ Throw(MaxIterationsError(maxToolIterations))
            /\ UNCHANGED requests

\* send(message) up to its first await.
BeginSend ==
    /\ pc \in {"idle", "settled"}
    /\ sendsLeft > 0
    /\ sendsLeft' = sendsLeft - 1
    /\ turn' = turn + 1
    /\ userMessage' = UserText(turn + 1)
    /\ histBefore' = conversation
    /\ rounds' = 0
    /\ lastExec' = NoExec
    /\ IF ~hasApiKey(config)
          THEN /\ Throw("Configuration error: apiKey: API key is required")
               /\ requests' = 0
          ELSE /\ pc' = "awaiting"
               /\ requests' = 1
               /\ outbound' = RequestBody(config, tools)
               /\ currentMessages' = BuildMessages(systemMessage, friendContext,
                                                  conversation, UserText(turn + 1))
               /\ iterations' = 0
               /\ UNCHANGED <<conversation, sendResult>>
    /\ UNCHANGED <<config, envVars, systemMessage, friendContext,
                   maxHistoryLength, maxToolIterations, tools>>

\* A client that repeats a failed request once before giving up.
ChatThrowsThenRetries ==
    /\ pc = "awaiting"
    /\ \E failure \in HttpFailures :
          LET response == ClientChat(HttpOutcome(failure, FALSE, "", <<>>)) IN
              /\ response.threw
              /\ IF requests <= rounds + 1
                    THEN /\ requests' = requests + 1
                         /\ UNCHANGED <<pc, sendResult, conversation,
                                        currentMessages, iterations, outbound>>
                    ELSE /\ Throw(response.error)
                         /\ UNCHANGED requests
    /\ UNCHANGED <<config, envVars, sendsLeft, systemMessage, friendContext,
                   maxHistoryLength, maxToolIterations, tools, turn,
                   userMessage, rounds, lastExec, histBefore>>

\* client.chat throws (timeout, non-ok status, body of the wrong shape).
ChatThrows ==
    /\ pc = "awaiting"
    /\ \E failure \in HttpFailures :
          LET response == ClientChat(HttpOutcome(failure, FALSE, "", <<>>)) IN
              /\ response.threw
              /\ Throw(response.error)
    /\ UNCHANGED <<config, envVars, sendsLeft, systemMessage, friendContext,
                   maxHistoryLength, maxToolIterations, tools, turn,
                   userMessage, requests, rounds, lastExec, histBefore>>

\* The response has no choices[0].
ChatNoChoice ==
    /\ pc = "awaiting"
    /\ LET response == ClientChat(HttpOutcome("ok", FALSE, "", <<>>)) IN
          /\ ~response.threw
          /\ ~response.hasChoice
          /\ Throw("No response from MiniMax")
    /\ UNCHANGED <<config, envVars, sendsLeft, systemMessage, friendContext,
                   maxHistoryLength, maxToolIterations, tools, turn,
                   userMessage, requests, rounds, lastExec, histBefore>>

\* The response carries tool calls: executeTools, the appends, iterations++
\* and the loop head again.
ChatToolCalls ==
    /\ pc = "awaiting"
    /\ \E batch \in Batches(endpointMaxBatch) :
          LET response == ClientChat(HttpOutcome("ok", TRUE, AnswerText(turn),
                                                 batch))
              exec == ExecuteTools(response.tool_calls, tools)
          IN  /\ ~response.threw
              /\ response.hasChoice
              /\ Len(response.tool_calls) > 0
              /\ rounds' = rounds + 1
              /\ lastExec' = [called |-> TRUE, batch |-> response.tool_calls,
                              threw |-> exec.threw, results |-> exec.results,
                              invoked |-> exec.invoked]
              /\ IF exec.threw
                    THEN /\ Throw(ArgumentsSyntaxError)
                         /\ UNCHANGED requests
                    ELSE LoopHead(iterations + 1,
                                  AppendToolRound(currentMessages,
                                                  response.content,
                                                  response.tool_calls,
                                                  exec.results))
    /\ UNCHANGED <<config, envVars, sendsLeft, systemMessage, friendContext,
                   maxHistoryLength, maxToolIterations, tools, turn,
                   userMessage, histBefore>>

\* The response carries no tool calls: sendWithTools returns its content and
\* send commits the turn.
ChatFinal ==
    /\ pc = "awaiting"
    /\ \E raw \in {<<>>, MalformedToolCalls} :
          LET response == ClientChat(HttpOutcome("ok", TRUE, AnswerText(turn),
                                                 raw)) IN
              /\ ~response.threw
              /\ response.hasChoice
              /\ Len(response.tool_calls) = 0
              /\ conversation' = CommitTurn(conversation, currentMessages,
                                            userMessage, response.content,
                                            systemMessage, friendContext,
                                            maxHistoryLength)
              /\ sendResult' = [status |-> "ok", value |-> response.content,
                                error |-> ""]
    /\ pc' = "settled"
    /\ currentMessages' = <<>>
    /\ iterations' = 0
    /\ UNCHANGED <<config, envVars, sendsLeft, systemMessage, friendContext,
                   maxHistoryLength, maxToolIterations, tools, turn,
                   userMessage, requests, rounds, lastExec, histBefore,
                   outbound>>

\* setFriendContext(context), between two turns.
SetFriendContext ==
    /\ pc \in {"idle", "settled"}
    /\ pc' = "idle"
    /\ sendsLeft > 0
    /\ \E context \in {"", "F"} :
          /\ context # friendContext
          /\ friendContext' = context
    /\ UNCHANGED <<config, envVars, sendsLeft, systemMessage, conversation,
                   maxHistoryLength, maxToolIterations, tools, turn,
                   userMessage, currentMessages, iterations, requests, rounds,
                   lastExec, sendResult, histBefore, outbound>>

Next ==
    \/ BeginSend
    \/ ChatThrows
    \/ ChatNoChoice
    \/ ChatToolCalls
    \/ ChatFinal
    \/ SetFriendContext

Spec == Init /\ [][Next]_vars

\* One turn of a freshly constructed Agent with the largest history limit,
\* the endpoint free to ask for every batch.
InitTools ==
    /\ endpointMaxBatch = MaxBatch
    /\ other = NoAgent
    /\ transport = NoTransport
    /\ LaterIdle
    /\ sendsLeft = 1
    /\ \E mi \in 1..MaxIter :
          Constructed([systemMessage |-> Some("S"), temperature |-> NoneNum,
                       maxTokens |-> NoneNum,
                       maxHistoryLength |-> Some(MaxHist),
                       maxToolIterations |-> Some(mi)], "key")
    /\ CallIdle
    /\ StreamIdle

NextTools ==
    \/ BeginSend
    \/ ChatThrows
    \/ ChatNoChoice
    \/ ChatToolCalls
    \/ ChatFinal

SpecTools == InitTools /\ [][NextTools]_vars

(***************************************************************************)
(* Construction from arbitrary options.                                    *)
(***************************************************************************)
OptionalIn(values) == {NoneNum} \cup {Some(v) : v \in values}

\* Option records a caller may pass, in range and out of range.
OptionInputs ==
    [systemMessage : {NoneStr, Some("S")},
     temperature : OptionalIn({TemperatureMin - 1, TemperatureMin,
                               TemperatureMax, TemperatureMax + 1}),
     maxTokens : OptionalIn({0, DefaultMaxTokens}),
     maxHistoryLength : OptionalIn({0, MaxHist}),
     maxToolIterations : OptionalIn({0, MaxIter})]

\* The module is imported, no Agent constructed yet.
Unconstructed ==
    /\ config = ImportedConfig("key")
    /\ ctor = [done |-> FALSE, options |-> EmptyOptions, threw |-> FALSE]
    /\ systemMessage = ""
    /\ friendContext = ""
    /\ conversation = <<>>
    /\ maxHistoryLength = DefaultMaxHistoryLength
    /\ maxToolIterations = DefaultMaxToolIterations
    /\ tools = {}
    /\ endpointMaxBatch = 0
    /\ other = NoAgent
    /\ transport = NoTransport
    /\ LaterIdle
    /\ sendsLeft = 0
    /\ CallIdle

InitCtor == Unconstructed /\ StreamIdle

\* new Agent(options): the Agent under observation is the one just built.
Construct ==
    \E options \in OptionInputs :
        LET agent == AgentConstructor(options, {}) IN
        /\ config' = ConstructorConfig(options, config)
        /\ ctor' = [done |-> TRUE, options |-> options, threw |-> agent.threw]
        /\ systemMessage' = agent.systemMessage
        /\ friendContext' = agent.friendContext
        /\ conversation' = agent.conversation
        /\ maxHistoryLength' = agent.maxHistoryLength
        /\ maxToolIterations' = agent.maxToolIterations
        /\ tools' = agent.tools
        /\ UNCHANGED <<endpointMaxBatch, laterVars, other, transport, streamVars,
                       sendsLeft, callVars>>

SpecCtor == InitCtor /\ [][Construct]_vars

(***************************************************************************)
(* Two Agents of one process.  The variables of the Agent hold the one     *)
(* under observation; `other` holds the second one, whose calls run        *)
(* between the suspension points of the first.                             *)
(***************************************************************************)
\* An updateOptions that takes over every field that is valid by itself.
UpdateOptionsPerField(agent, options) ==
    [agent EXCEPT
        !.systemMessage =
            IF options.systemMessage.present
               THEN options.systemMessage.v ELSE @,
        !.maxHistoryLength =
            IF options.maxHistoryLength.present
               /\ options.maxHistoryLength.v > 0
               THEN options.maxHistoryLength.v ELSE @,
        !.maxToolIterations =
            IF options.maxToolIterations.present
               /\ options.maxToolIterations.v > 0
               THEN options.maxToolIterations.v ELSE @]

\* updateOptions(options) on the fields of an Agent: nothing when the
\* options do not validate, otherwise every field that is not undefined.
UpdateOptions(agent, options) ==
    IF ~AgentOptionsSchemaOK(options) THEN agent
    ELSE [agent EXCEPT
            !.systemMessage =
                IF options.systemMessage.present
                   THEN options.systemMessage.v ELSE @,
            !.maxHistoryLength =
                IF options.maxHistoryLength.present
                   THEN options.maxHistoryLength.v ELSE @,
            !.maxToolIterations =
                IF options.maxToolIterations.present
                   THEN options.maxToolIterations.v ELSE @]

\* updateOptions(options) on the module configuration.
UpdateOptionsConfig(options, cfg) ==
    IF ~AgentOptionsSchemaOK(options) THEN cfg
    ELSE [cfg EXCEPT
            !.temperature =
                IF options.temperature.present THEN options.temperature.v ELSE @,
            !.maxTokens =
                IF options.maxTokens.present THEN options.maxTokens.v ELSE @]

\* The options the second Agent is constructed and updated with.
OtherTemperature == 15
OtherMaxTokens == 256
OtherOptions ==
    [systemMessage : {NoneStr},
     temperature : {NoneNum, Some(OtherTemperature)},
     maxTokens : {NoneNum, Some(OtherMaxTokens)},
     maxHistoryLength : {Some(2)},
     maxToolIterations : {NoneNum}]

\* The first Agent is constructed, with or without a temperature of its own.
InitPair ==
    /\ endpointMaxBatch = 1
    /\ other = NoAgent
    /\ transport = NoTransport
    /\ LaterIdle
    /\ sendsLeft = 1
    /\ \E temperature \in {NoneNum, Some(3)} :
          Constructed([systemMessage |-> Some("S"), temperature |-> temperature,
                       maxTokens |-> NoneNum,
                       maxHistoryLength |-> Some(MaxHist),
                       maxToolIterations |-> Some(MaxIter)], "key")
    /\ CallIdle
    /\ StreamIdle

\* What every call on the second Agent leaves alone.
FirstAgentUntouched ==
    UNCHANGED <<agentVars, ctor, endpointMaxBatch, laterVars, transport, streamVars,
                sendsLeft, callVars>>

\* new Agent(options) for the second Agent.
ConstructOther ==
    /\ ~other.constructed
    /\ \E options \in OtherOptions :
          LET agent == AgentConstructor(options, {}) IN
          /\ other' = [constructed |-> TRUE,
                       systemMessage |-> agent.systemMessage,
                       conversation |-> agent.conversation,
                       maxHistoryLength |-> agent.maxHistoryLength,
                       maxToolIterations |-> agent.maxToolIterations,
                       tools |-> agent.tools]
          /\ config' = ConstructorConfig(options, config)
    /\ FirstAgentUntouched

\* other.updateOptions(options)
OtherUpdateOptions ==
    /\ other.constructed
    /\ \E options \in OtherOptions :
          /\ other' = UpdateOptions(other, options)
          /\ config' = UpdateOptionsConfig(options, config)
          /\ <<other', config'>> # <<other, config>>
    /\ FirstAgentUntouched

\* other.addTool(tool)
OtherAddTool ==
    /\ other.constructed
    /\ \E tool \in {"calculator"} :
          /\ tool \notin other.tools
          /\ other' = [other EXCEPT !.tools = @ \cup {tool}]
    /\ UNCHANGED config
    /\ FirstAgentUntouched

\* other.clearHistory()
OtherClearHistory ==
    /\ other.constructed
    /\ other.conversation # <<>>
    /\ other' = [other EXCEPT !.conversation = <<>>]
    /\ UNCHANGED config
    /\ FirstAgentUntouched

\* other.send(message), answered at once without tool calls.  The call
\* writes the second Agent's conversation and nothing else, so its
\* suspension points are not told apart.
OtherSend ==
    /\ other.constructed
    /\ hasApiKey(config)
    /\ other' = [other EXCEPT !.conversation =
                    CommitTurn(@, <<>>, "v", "w", other.systemMessage, "",
                               other.maxHistoryLength)]
    /\ other' # other
    /\ UNCHANGED config
    /\ FirstAgentUntouched

NextPair ==
    \/ BeginSend
    \/ ChatThrows
    \/ ChatNoChoice
    \/ ChatToolCalls
    \/ ChatFinal
    \/ ConstructOther
    \/ OtherUpdateOptions
    \/ OtherAddTool
    \/ OtherClearHistory
    \/ OtherSend

SpecPair == InitPair /\ [][NextPair]_vars

(***************************************************************************)
(* One transport call against the clock: fetchWithTimeout and the reads of *)
(* the response that follow it in chat and streamChat.  Time is counted in *)
(* ticks; the timer set by fetchWithTimeout is due after this.timeout.     *)
(***************************************************************************)
\* The awaits of a transport call that wait on the remote endpoint.
PendingPhases == {"fetch", "errorText", "body"}

\* The module is imported; no call is under way.
InitTransport ==
    /\ Unconstructed
    /\ StreamIdle

\* What a step of the transport call leaves alone.
OnlyTransport ==
    UNCHANGED <<config, agentVars, ctor, endpointMaxBatch, laterVars, other, streamVars,
                sendsLeft, callVars>>

\* chat or streamChat, of a client whose timeout was configured as
\* `timeout`, reaches fetchWithTimeout: the timer is set and the request
\* goes out.
FetchWithTimeout ==
    /\ transport.phase = "idle"
    /\ \E kind \in {"chat", "stream"}, timeout \in 1..TimeoutTicks :
          transport' = [kind |-> kind, phase |-> "fetch", timeout |-> timeout,
                        timer |-> TRUE, elapsed |-> 0, reads |-> 0,
                        error |-> ""]
    /\ OnlyTransport

\* A tick of the clock while the call waits.  A timer that is set and due
\* runs before the clock moves on.
Tick ==
    /\ transport.phase \in PendingPhases
    /\ transport.elapsed <= transport.timeout
    /\ ~(transport.timer /\ transport.elapsed >= transport.timeout)
    /\ transport' = [transport EXCEPT !.elapsed = @ + 1]
    /\ OnlyTransport

\* The timer fires: controller.abort() rejects the pending fetch with an
\* AbortError, which fetchWithTimeout turns into the timeout error.
TimerFires ==
    /\ transport.timer
    /\ transport.elapsed >= transport.timeout
    /\ transport.phase = "fetch"
    /\ transport' = [transport EXCEPT !.phase = "failed", !.timer = FALSE,
                                      !.error = "Request timed out"]
    /\ OnlyTransport

\* fetch resolves with the response headers: clearTimeout, return response.
\* The caller goes on to read the error text, the JSON body or the stream.
HeadersArrive ==
    /\ transport.phase = "fetch"
    /\ \E ok \in BOOLEAN :
          transport' = [transport EXCEPT
                           !.timer = FALSE,
                           !.phase = IF ok THEN "body" ELSE "errorText"]
    /\ OnlyTransport

\* fetch rejects for another reason than the abort: clearTimeout, rethrow.
FetchFails ==
    /\ transport.phase = "fetch"
    /\ transport' = [transport EXCEPT !.phase = "failed", !.timer = FALSE,
                                      !.error = "fetch failed"]
    /\ OnlyTransport

\* response.text() of a non-ok response resolves: the API error is thrown.
ErrorTextRead ==
    /\ transport.phase = "errorText"
    /\ transport' = [transport EXCEPT !.phase = "failed",
                                      !.error = "MiniMax API error"]
    /\ OnlyTransport

\* response.json() resolves (chat) with a body that passes or fails
\* ChatResponseSchema, or reader.read() delivers a fragment or the end of
\* the body (streamChat).
BodyRead ==
    /\ transport.phase = "body"
    /\ \/ /\ transport.kind = "chat"
          /\ transport' = [transport EXCEPT !.phase = "done"]
       \/ /\ transport.kind = "chat"
          /\ transport' = [transport EXCEPT !.phase = "failed",
                                            !.error = "ZodError"]
       \/ /\ transport.kind = "stream"
          /\ transport.reads < MaxLines
          /\ transport' = [transport EXCEPT !.reads = @ + 1]
       \/ /\ transport.kind = "stream"
          /\ transport' = [transport EXCEPT !.phase = "done"]
    /\ OnlyTransport

NextTransport ==
    \/ FetchWithTimeout
    \/ Tick
    \/ TimerFires
    \/ HeadersArrive
    \/ FetchFails
    \/ ErrorTextRead
    \/ BodyRead

SpecTransport == InitTransport /\ [][NextTransport]_vars

(***************************************************************************)
(* The stream decoder of MiniMaxClient.streamChat and                      *)
(* MiniMaxChatModel.stream.  Text is a sequence of characters.             *)
(***************************************************************************)
Newline == "\n"
DataMarker == <<"d", "a", "t", "a", ":", " ">>
DoneText == <<"[", "D", "O", "N", "E", "]">>

\* String.prototype.split('\n'): the segments between the newlines; a text
\* without newline is one segment, a text ending in one has a last segment ''.
RECURSIVE SplitLines(_, _, _)
SplitLines(text, i, current) ==
    IF i > Len(text) THEN <<current>>
    ELSE IF text[i] = Newline
        THEN <<current>> \o SplitLines(text, i + 1, <<>>)
        ELSE SplitLines(text, i + 1, Append(current, text[i]))

\* line.startsWith('data: ')
StartsWithData(line) ==
    /\ Len(line) >= Len(DataMarker)
    /\ SubSeq(line, 1, Len(DataMarker)) = DataMarker

\* line.slice(6)
Slice6(line) == SubSeq(line, Len(DataMarker) + 1, Len(line))

\* The deltas the claim expects of a text: one per newline-terminated data
\* record before the sentinel whose payload is the JSON of a chunk with a
\* non-empty content delta.
IsChunkJSON(data) ==
    Len(data) >= 2 /\ data[1] = "{" /\ data[Len(data)] = "}"
DeltaOfJSON(data) == SubSeq(data, 2, Len(data) - 1)

\* A parser that reads the JSON text of a record before validating it.
StreamChunkSchemaParseJSON(input) ==
    IF input.type = "string" /\ IsChunkJSON(input.text)
       THEN [ok |-> TRUE,
             chunk |-> [type |-> "object", text |-> input.text,
                        choices |-> <<[delta |->
                            [content |-> DeltaOfJSON(input.text)]]>>]]
       ELSE [ok |-> FALSE, chunk |-> input]

\* A JavaScript value handed to a zod schema: a string, or an object.
JSString(text) == [type |-> "string", text |-> text]

\* StreamChunkSchema.parse(input): a z.object schema accepts only an object;
\* any other input (a string included) makes it throw a ZodError.
StreamChunkSchemaParse(input) ==
    IF input.type = "object"
       THEN [ok |-> TRUE, chunk |-> input]
       ELSE [ok |-> FALSE, chunk |-> input]

\* The decoder between two reads:
\*   buffer    the unconsumed text
\*   chunks    the StreamChunks yielded so far
\*   parsed    the payloads handed to StreamChunkSchema.parse so far
\*   returned  the generator returned on the terminal sentinel
NewDecoder ==
    [buffer |-> <<>>, chunks |-> <<>>, parsed |-> <<>>, returned |-> FALSE]

\* The body of `for (const line of lines)` for one line.
DecodeLine(line, st) ==
    IF ~StartsWithData(line) THEN st
    ELSE LET data == Slice6(line) IN
         IF data = DoneText THEN [st EXCEPT !.returned = TRUE]
         ELSE LET result == StreamChunkSchemaParse(JSString(data)) IN
              IF result.ok
                 THEN [st EXCEPT !.parsed = Append(@, data),
                                 !.chunks = Append(@, result.chunk)]
                 ELSE [st EXCEPT !.parsed = Append(@, data)]

\* A loop over the lines that does not stop at the terminal sentinel.
RECURSIVE DecodeLinesPastSentinel(_, _, _)
DecodeLinesPastSentinel(lines, i, st) ==
    IF i > Len(lines) THEN st
    ELSE DecodeLinesPastSentinel(lines, i + 1, DecodeLine(lines[i], st))

RECURSIVE DecodeLines(_, _, _)
DecodeLines(lines, i, st) ==
    IF i > Len(lines) \/ st.returned THEN st
    ELSE DecodeLines(lines, i + 1, DecodeLine(lines[i], st))

\* A decoder that forgot the unfinished line between two reads.
KeepNothing(lines) == <<>>

\* The buffer kept for the next read: lines.pop() || ''
KeepPartialLine(lines) == lines[Len(lines)]

\* One turn of the read loop with a fragment in hand: append, split, keep
\* the last segment, decode the complete lines.
DecodeFragment(st, fragment) ==
    LET lines == SplitLines(st.buffer \o fragment, 1, <<>>) IN
    DecodeLines(SubSeq(lines, 1, Len(lines) - 1), 1,
                [st EXCEPT !.buffer = KeepPartialLine(lines)])

\* sendStream's filter on a chunk: choices[0]?.delta?.content when it is a
\* non-empty string.
ChunkDelta(chunk) ==
    IF chunk.type = "object" /\ Len(chunk.choices) > 0
       THEN chunk.choices[1].delta.content ELSE <<>>

RECURSIVE SendStreamDeltas(_)
SendStreamDeltas(chunks) ==
    IF chunks = <<>> THEN <<>>
    ELSE (IF ChunkDelta(Head(chunks)) # <<>>
             THEN <<ChunkDelta(Head(chunks))>> ELSE <<>>)
         \o SendStreamDeltas(Tail(chunks))

(***************************************************************************)
(* The upstream texts and the read loop.                                   *)
(***************************************************************************)
\* The JSON text of a chunk whose choices[0].delta.content is `delta`.
ChunkJSON(delta) == <<"{">> \o delta \o <<"}">>

\* The lines an upstream sends: two well-formed data records (one with a
\* content delta, one without), a data record cut short, the terminal
\* sentinel, an empty keep-alive line and a comment line.
LineKinds ==
    {DataMarker \o ChunkJSON(<<"H", "i">>),
     DataMarker \o ChunkJSON(<<>>),
     DataMarker \o <<"{", "H">>,
     DataMarker \o DoneText,
     <<>>,
     <<":", "k">>}

RECURSIVE JoinLines(_, _)
JoinLines(lines, terminated) ==
    IF Len(lines) = 1
       THEN lines[1] \o (IF terminated THEN <<Newline>> ELSE <<>>)
       ELSE lines[1] \o <<Newline>> \o JoinLines(Tail(lines), terminated)

Texts ==
    {JoinLines(lines, terminated) :
        lines \in UNION {[1..n -> LineKinds] : n \in 1..MaxLines},
        terminated \in BOOLEAN}

\* The response body is open, nothing read yet.
InitStream ==
    /\ Unconstructed
    /\ streamText \in Texts
    /\ streamPos = 0
    /\ decoder = NewDecoder
    /\ streamPc = "reading"
    /\ cut = "none"

\* Where the boundary after a fragment fell, given the buffer it left.
CutAfter(buffer, before) ==
    IF buffer # <<>> /\ Len(buffer) < Len(DataMarker)
       /\ buffer = SubSeq(DataMarker, 1, Len(buffer))
       THEN "marker"
    ELSE IF buffer # <<>> /\ before = "none" THEN "line"
    ELSE before

\* reader.read() delivers the next fragment: any non-empty stretch of the
\* text not yet read.  The generator returns when the sentinel is decoded.
ReadFragment ==
    /\ streamPc = "reading"
    /\ \E n \in 1..(Len(streamText) - streamPos) :
          LET fragment == SubSeq(streamText, streamPos + 1, streamPos + n)
              st == DecodeFragment(decoder, fragment)
          IN  /\ streamPos' = streamPos + n
              /\ decoder' = st
              /\ streamPc' = IF st.returned THEN "done" ELSE "reading"
              /\ cut' = IF st.returned \/ streamPos + n = Len(streamText)
                           THEN cut ELSE CutAfter(st.buffer, cut)
    /\ UNCHANGED <<config, agentVars, ctor, endpointMaxBatch, laterVars, other,
                   transport, sendsLeft,
                   callVars, streamText>>

\* A read loop that decodes what is left in the buffer when the body ends.
ReadEndFlushesBuffer ==
    /\ streamPc = "reading"
    /\ streamPos = Len(streamText)
    /\ streamPc' = "done"
    /\ decoder' = DecodeLine(decoder.buffer, decoder)
    /\ UNCHANGED <<config, agentVars, ctor, endpointMaxBatch, laterVars, other,
                   transport, sendsLeft,
                   callVars, streamText, streamPos, cut>>

\* reader.read() reports done: the loop breaks and the generator ends.
ReadEnd ==
    /\ streamPc = "reading"
    /\ streamPos = Len(streamText)
    /\ streamPc' = "done"
    /\ UNCHANGED <<config, agentVars, ctor, endpointMaxBatch, laterVars, other,
                   transport, sendsLeft,
                   callVars, streamText, streamPos, decoder, cut>>

NextStream == ReadFragment \/ ReadEnd

SpecStream == InitStream /\ [][NextStream]_vars

(***************************************************************************)
(* updateOptions on the Agent under observation.                           *)
(***************************************************************************)
\* The option records the caller updates with: two that lower the history
\* limit, one that sets a system text and a temperature, two that mix valid
\* fields with one that fails validation, and the empty record.
UpdateInputs ==
    {[EmptyOptions EXCEPT !.maxHistoryLength = Some(1)],
     [EmptyOptions EXCEPT !.maxHistoryLength = Some(2)],
     [EmptyOptions EXCEPT !.systemMessage = Some("T"), !.temperature = Some(3)],
     [EmptyOptions EXCEPT !.systemMessage = Some("T"),
                          !.maxHistoryLength = Some(1),
                          !.temperature = Some(TemperatureMax + 1)],
     [EmptyOptions EXCEPT !.maxHistoryLength = Some(0),
                          !.maxToolIterations = Some(1),
                          !.maxTokens = Some(OtherMaxTokens)],
     EmptyOptions}

\* An Agent constructed with the largest history limit, the endpoint asking
\* for no tool, the caller about to issue send and updateOptions calls.
InitOptions ==
    /\ endpointMaxBatch = 0
    /\ other = NoAgent
    /\ transport = NoTransport
    /\ lastUpdate = [NoUpdate EXCEPT !.left = MaxUpdates]
    /\ toolRun = NoBatch
    /\ routes = NoRoutes
    /\ second = NoSecond
    /\ streaming = NoStreaming
    /\ sendsLeft = MaxTurns
    /\ \E sys \in {NoneStr, Some("S")} :
          Constructed([systemMessage |-> sys, temperature |-> NoneNum,
                       maxTokens |-> NoneNum,
                       maxHistoryLength |-> Some(MaxHist),
                       maxToolIterations |-> Some(1)], "key")
    /\ CallIdle
    /\ StreamIdle

\* What updateOptions leaves alone besides the history.
UpdateFrame ==
    /\ pc' = IF pc = "settled" THEN "idle" ELSE pc
    /\ UNCHANGED <<friendContext, tools, ctor, endpointMaxBatch, other,
                   transport, streamVars, toolRun, routes, second, streaming,
                   sendsLeft, turn, userMessage,
                   currentMessages, iterations, requests, rounds, lastExec,
                   sendResult, histBefore, outbound>>

\* The fields of the Agent and the configuration after updateOptions(options).
UpdateFields(options) ==
    LET agent == UpdateOptions([systemMessage |-> systemMessage,
                                maxHistoryLength |-> maxHistoryLength,
                                maxToolIterations |-> maxToolIterations],
                               options)
    IN  /\ systemMessage' = agent.systemMessage
        /\ maxHistoryLength' = agent.maxHistoryLength
        /\ maxToolIterations' = agent.maxToolIterations
        /\ config' = UpdateOptionsConfig(options, config)
        /\ lastUpdate' = [left |-> lastUpdate.left - 1, options |-> options,
                          threw |-> FALSE]

\* An updateOptions that trims the history to the limit it has just set.
UpdateOptionsCallTrims ==
    /\ lastUpdate.left > 0
    /\ \E options \in UpdateInputs :
          /\ UpdateFields(options)
          /\ conversation' = TrimHistory(conversation, systemMessage',
                                         friendContext, maxHistoryLength')
    /\ UpdateFrame

\* updateOptions(options), between two turns or while a send is suspended.
UpdateOptionsCall ==
    /\ lastUpdate.left > 0
    /\ \E options \in UpdateInputs : UpdateFields(options)
    /\ UNCHANGED conversation
    /\ UpdateFrame

NextOptions ==
    \/ BeginSend
    \/ ChatThrows
    \/ ChatFinal
    \/ UpdateOptionsCall

SpecOptions == InitOptions /\ [][NextOptions]_vars

(***************************************************************************)
(* executeTools one await at a time, and the registry calls that may run   *)
(* while a send is suspended.                                              *)
(***************************************************************************)
\* The loop body reaches `await tool.execute(...)` for this request: the
\* arguments parse, the tool is registered and its schema accepts them.
ReachesExecute(toolCall, registry) ==
    LET parsed == JSONParse(toolCall.function.arguments) IN
    /\ parsed.ok
    /\ toolCall.function.name \in registry
    /\ InputSchemaOK(toolCall.function.name, parsed.value)

\* A loop that starts the tool of every remaining request without awaiting.
RECURSIVE RunAllAtOnce(_, _)
RunAllAtOnce(st, registry) ==
    IF st.i > Len(st.batch) \/ st.acc.threw THEN [st EXCEPT !.i = Len(st.batch)]
    ELSE IF ReachesExecute(st.batch[st.i], registry)
        THEN RunAllAtOnce([st EXCEPT !.running = @ \cup {st.batch[st.i].id},
                                     !.started = Append(@, st.batch[st.i].id),
                                     !.i = @ + 1], registry)
        ELSE RunAllAtOnce([st EXCEPT !.acc = ExecuteOne(st.batch[st.i],
                                                        registry, @),
                                     !.i = @ + 1], registry)

\* executeTools' loop from request st.i up to its next suspension: requests
\* that do not reach a tool get their result at once; at the first that does
\* the tool is started and the loop waits for it.  The loop is over when
\* nothing is running.
RECURSIVE RunToAwait(_, _)
RunToAwait(st, registry) ==
    IF st.i > Len(st.batch) \/ st.acc.threw THEN st
    ELSE IF ReachesExecute(st.batch[st.i], registry)
        THEN [st EXCEPT !.running = @ \cup {st.batch[st.i].id},
                        !.started = Append(@, st.batch[st.i].id)]
        ELSE RunToAwait([st EXCEPT !.acc = ExecuteOne(st.batch[st.i],
                                                      registry, @),
                                   !.i = @ + 1], registry)

\* The tool of request st.i settles: its result is pushed.  The tool object
\* was taken from the registry before the await.
Settle(st) ==
    LET toolCall == st.batch[st.i] IN
    [st EXCEPT !.acc = ExecuteOne(toolCall, {toolCall.function.name}, @),
               !.running = @ \ {toolCall.id},
               !.i = @ + 1]

\* One turn of a freshly constructed Agent; the endpoint asks for tools in
\* its first response.
InitRegistry ==
    /\ endpointMaxBatch = MaxBatch
    /\ other = NoAgent
    /\ transport = NoTransport
    /\ LaterIdle
    /\ sendsLeft = 1
    /\ Constructed([systemMessage |-> Some("S"), temperature |-> NoneNum,
                    maxTokens |-> NoneNum,
                    maxHistoryLength |-> Some(MaxHist),
                    maxToolIterations |-> Some(MaxIter)], "key")
    /\ CallIdle
    /\ StreamIdle

\* sendWithTools with executeTools at `st`: suspended on a tool, or past
\* the call (the appends, iterations++ and the loop head again; or the
\* exception of JSON.parse on its way out of send).
AfterRun(st) ==
    IF st.running # {}
       THEN /\ pc' = "executing"
            /\ toolRun' = st
            /\ UNCHANGED <<lastExec, conversation, sendResult, currentMessages,
                           iterations, requests, outbound>>
       ELSE /\ toolRun' = [st EXCEPT !.active = FALSE]
            /\ lastExec' = [called |-> TRUE, batch |-> st.batch,
                            threw |-> st.acc.threw, results |-> st.acc.results,
                            invoked |-> st.acc.invoked]
            /\ IF st.acc.threw
                  THEN /\ Throw(ArgumentsSyntaxError)
                       /\ UNCHANGED requests
                  ELSE LoopHead(iterations + 1,
                                AppendToolRound(currentMessages, st.content,
                                                st.batch, st.acc.results))

\* What the steps of the turn leave alone.
TurnFrame ==
    UNCHANGED <<config, ctor, endpointMaxBatch, other, transport, streamVars,
                lastUpdate, routes, second, streaming, sendsLeft, systemMessage, friendContext,
                maxHistoryLength, maxToolIterations, tools, turn, userMessage,
                histBefore>>

\* The first response carries tool calls: executeTools starts.
ToolCallsArrive ==
    /\ pc = "awaiting"
    /\ rounds = 0
    /\ \E batch \in Batches(endpointMaxBatch) :
          LET response == ClientChat(HttpOutcome("ok", TRUE, AnswerText(turn),
                                                 batch))
          IN  /\ ~response.threw
              /\ response.hasChoice
              /\ Len(response.tool_calls) > 0
              /\ AfterRun(RunToAwait([NoBatch EXCEPT
                                         !.active = TRUE,
                                         !.content = response.content,
                                         !.batch = response.tool_calls,
                                         !.i = 1], tools))
    /\ rounds' = rounds + 1
    /\ TurnFrame

\* The tool executeTools waits for settles, and the loop goes on.
ToolSettles ==
    /\ pc = "executing"
    /\ AfterRun(RunToAwait(Settle(toolRun), tools))
    /\ UNCHANGED rounds
    /\ TurnFrame

\* What addTool and removeTool leave alone.
RegistryFrame ==
    UNCHANGED <<config, systemMessage, friendContext, conversation,
                maxHistoryLength, maxToolIterations, envVars, sendsLeft,
                callVars>>

\* addTool(tool) while the send is suspended.
AddTool ==
    /\ pc \in {"awaiting", "executing"}
    /\ \E tool \in RegisteredTools :
          /\ tool \notin tools
          /\ tools' = tools \cup {tool}
    /\ RegistryFrame

\* removeTool(name) while the send is suspended.
RemoveTool ==
    /\ pc \in {"awaiting", "executing"}
    /\ \E name \in tools : tools' = tools \ {name}
    /\ RegistryFrame

NextRegistry ==
    \/ BeginSend
    \/ ChatThrows
    \/ ChatFinal
    \/ ToolCallsArrive
    \/ ToolSettles
    \/ AddTool
    \/ RemoveTool

SpecRegistry == InitRegistry /\ [][NextRegistry]_vars

(***************************************************************************)
(* The route layer: the session map of /api/agent (key sessionId or        *)
(* 'default') and of /api/chat (key personId or personName).               *)
(***************************************************************************)
PersonName == "Ann"

\* The sessionId / personId of a request body: absent, empty, or a key.
SessionIdInputs == {NoneStr, Some(""), Some("s1")}

\* body.sessionId || 'default'  and  personId || personName
RouteKey(layer, id) ==
    OrDefaultStr(id, IF layer = "agent" THEN "default" ELSE PersonName)

\* The system text the n-th request brings: the body.systemMessage of
\* /api/agent, the prompt /api/chat builds from the request.
RouteSystemText(layer, n) ==
    IF layer = "agent" THEN Some("S") ELSE Some("P" \o ToString(n))

\* The options the router creates an Agent with.
RouteOptions(layer, sys) ==
    IF layer = "agent"
       THEN [EmptyOptions EXCEPT !.systemMessage = sys]
       ELSE [EmptyOptions EXCEPT !.systemMessage = sys,
                                 !.temperature = Some(DefaultTemperature),
                                 !.maxTokens = Some(500)]

\* A router that builds a new Agent for every request.
GetAlwaysMisses(map, key) == 0

\* agents.get(key): the Agent of the key, 0 for undefined.
Get(map, key) == map[key]

\* The Agent record `new Agent(options)` adds to the pool.
PoolAgent(options) ==
    LET agent == AgentConstructor(options, {}) IN
    [systemMessage |-> agent.systemMessage,
     conversation |-> agent.conversation,
     maxHistoryLength |-> agent.maxHistoryLength,
     maxToolIterations |-> agent.maxToolIterations]

InitRoutes ==
    /\ config = ImportedConfig("key")
    /\ ctor = [done |-> FALSE, options |-> EmptyOptions, threw |-> FALSE]
    /\ systemMessage = ""
    /\ friendContext = ""
    /\ conversation = <<>>
    /\ maxHistoryLength = DefaultMaxHistoryLength
    /\ maxToolIterations = DefaultMaxToolIterations
    /\ tools = {}
    /\ endpointMaxBatch = 0
    /\ other = NoAgent
    /\ transport = NoTransport
    /\ lastUpdate = NoUpdate
    /\ toolRun = NoBatch
    /\ second = NoSecond
    /\ streaming = NoStreaming
    /\ \E layer \in {"agent", "chat"} :
          routes = [NoRoutes EXCEPT !.layer = layer]
    /\ sendsLeft = 0
    /\ CallIdle
    /\ StreamIdle

\* What the route handlers leave alone.
RouteFrame ==
    UNCHANGED <<agentVars, ctor, endpointMaxBatch, other, transport,
                streamVars, lastUpdate, toolRun, second, streaming, sendsLeft,
                callVars>>

\* POST of a chat request, up to the await of agent.send.  A body that
\* fails the request schema is answered 400 before the map is looked at.
PostChat ==
    /\ routes.issued < MaxRequests
    /\ \E id \in SessionIdInputs, valid \in BOOLEAN :
          LET n == routes.issued + 1
              sys == RouteSystemText(routes.layer, n)
              key == RouteKey(routes.layer, id)
              found == Get(routes.agents, key)
              agent == IF found # 0 THEN found ELSE Len(routes.pool) + 1
              options == RouteOptions(routes.layer, sys)
          IN  IF ~valid
                 THEN /\ routes' = [routes EXCEPT
                                       !.issued = n,
                                       !.last = [NoRouteEvent EXCEPT
                                                    !.route = "chat",
                                                    !.status = 400]]
                      /\ UNCHANGED config
                 ELSE /\ routes' =
                            [routes EXCEPT
                                !.issued = n,
                                !.agents[key] = agent,
                                !.pool =
                                    IF found = 0
                                       THEN Append(@, PoolAgent(options))
                                    ELSE IF routes.layer = "chat"
                                       THEN [@ EXCEPT ![agent] =
                                               UpdateOptions(@,
                                                   [EmptyOptions EXCEPT
                                                       !.systemMessage = sys])]
                                    ELSE @,
                                !.inflight = @ \cup
                                    {[n |-> n, agent |-> agent,
                                      message |-> UserText(n)]},
                                !.last = [route |-> "chat", key |-> key,
                                          status |-> 0, agent |-> agent,
                                          created |-> found = 0]]
                      /\ config' = IF found = 0
                                      THEN ConstructorConfig(options, config)
                                      ELSE config
    /\ RouteFrame

\* agent.send of a suspended request settles: with its answer (the turn is
\* committed, the reply is 200) or with an error (the reply is 500).
SendSettles ==
    /\ \E request \in routes.inflight, ok \in BOOLEAN :
          LET agent == routes.pool[request.agent] IN
          routes' =
              [routes EXCEPT
                  !.inflight = @ \ {request},
                  !.pool[request.agent].conversation =
                      IF ok THEN CommitTurn(@, <<>>, request.message,
                                            AnswerText(request.n),
                                            agent.systemMessage, "",
                                            agent.maxHistoryLength)
                            ELSE ConversationOnThrow(@, request.message),
                  !.last = [route |-> "reply", key |-> "",
                            status |-> IF ok THEN 200 ELSE 500,
                            agent |-> request.agent, created |-> FALSE]]
    /\ UNCHANGED config
    /\ RouteFrame

\* DELETE for a key: clearHistory and agents.delete when the map has the
\* key, 404 otherwise.
DeleteSession ==
    /\ \E key \in SessionKeys :
          LET found == routes.agents[key] IN
          routes' =
              IF found # 0
                 THEN [routes EXCEPT
                          !.pool[found].conversation = <<>>,
                          !.agents[key] = 0,
                          !.last = [route |-> "delete", key |-> key,
                                    status |-> 200, agent |-> found,
                                    created |-> FALSE]]
                 ELSE [routes EXCEPT
                          !.last = [route |-> "delete", key |-> key,
                                    status |-> 404, agent |-> 0,
                                    created |-> FALSE]]
    /\ routes' # routes
    /\ UNCHANGED config
    /\ RouteFrame

NextRoutes ==
    \/ PostChat
    \/ SendSettles
    \/ DeleteSession

SpecRoutes == InitRoutes /\ [][NextRoutes]_vars

(***************************************************************************)
(* Two send calls on one Agent.  The position and the locals of the first  *)
(* are the variables of the call; those of the second are in `second`.     *)
(***************************************************************************)
SecondText == "v"
SecondAnswer == "w"

\* An Agent with the default or a small history limit; the caller issues the
\* turns of the first call one after the other.
InitOverlap ==
    /\ endpointMaxBatch = 0
    /\ other = NoAgent
    /\ transport = NoTransport
    /\ LaterIdle
    /\ sendsLeft = MaxTurns
    /\ \E sys \in {NoneStr, Some("S")},
          mh \in {NoneNum} \cup {Some(n) : n \in 1..MaxHist} :
          Constructed([systemMessage |-> sys, temperature |-> NoneNum,
                       maxTokens |-> NoneNum, maxHistoryLength |-> mh,
                       maxToolIterations |-> Some(1)], "key")
    /\ CallIdle
    /\ StreamIdle

\* What a step of the second call leaves alone.
SecondFrame ==
    UNCHANGED <<config, systemMessage, friendContext, maxHistoryLength,
                maxToolIterations, tools, ctor, endpointMaxBatch, other,
                transport, streamVars, lastUpdate, toolRun, routes, streaming,
                sendsLeft, callVars>>

\* send(message) a second time, up to its await, while the first call is
\* suspended on its request.
SecondBegin ==
    /\ pc = "awaiting"
    /\ second.pc = "idle"
    /\ hasApiKey(config)
    /\ second' = [second EXCEPT
                     !.pc = "awaiting",
                     !.messages = BuildMessages(systemMessage, friendContext,
                                                conversation, SecondText),
                     !.history = conversation,
                     !.during = turn]
    /\ UNCHANGED conversation
    /\ SecondFrame

\* A send that wrote back the history it read before its request, with its
\* turn added.
SecondFinalFromSnapshot ==
    /\ second.pc = "awaiting"
    /\ conversation' = CommitTurn(second.history, second.messages, SecondText,
                                  SecondAnswer, systemMessage, friendContext,
                                  maxHistoryLength)
    /\ second' = [second EXCEPT
                     !.pc = "settled",
                     !.firstDone = (pc = "settled"),
                     !.result = [status |-> "ok", value |-> SecondAnswer,
                                 error |-> ""]]
    /\ SecondFrame

\* The request of the second call is answered without tool calls: the two
\* pushes and the trim.
SecondFinal ==
    /\ second.pc = "awaiting"
    /\ conversation' = CommitTurn(conversation, second.messages, SecondText,
                                  SecondAnswer, systemMessage, friendContext,
                                  maxHistoryLength)
    /\ second' = [second EXCEPT
                     !.pc = "settled",
                     !.firstDone = (pc = "settled"),
                     !.result = [status |-> "ok", value |-> SecondAnswer,
                                 error |-> ""]]
    /\ SecondFrame

\* The request of the second call fails.
SecondThrows ==
    /\ second.pc = "awaiting"
    /\ \E failure \in HttpFailures :
          LET response == ClientChat(HttpOutcome(failure, FALSE, "", <<>>)) IN
          second' = [second EXCEPT
                        !.pc = "settled",
                        !.firstDone = (pc = "settled"),
                        !.result = [status |-> "error", value |-> "",
                                    error |-> response.error]]
    /\ conversation' = ConversationOnThrow(conversation, SecondText)
    /\ SecondFrame

NextOverlap ==
    \/ BeginSend
    \/ ChatThrows
    \/ ChatFinal
    \/ SecondBegin
    \/ SecondFinal
    \/ SecondThrows

SpecOverlap == InitOverlap /\ [][NextOverlap]_vars

(***************************************************************************)
(* Agent.sendStream and Agent.sendStreamWithCallbacks, fed by              *)
(* MiniMaxClient.streamChat and streamWithCallbacks.  One streaming call   *)
(* is followed from its two pushes to its end; turns of other send calls   *)
(* and clearHistory calls on the same Agent run around it.  Every message  *)
(* of the history carries the number of its insertion in streaming.ids, and *)
(* streaming.log keeps each inserted message as it was inserted.           *)
(***************************************************************************)
StreamUserText == "q"

\* A sequence of characters as a JavaScript string.
RECURSIVE Str(_)
Str(chars) == IF chars = <<>> THEN "" ELSE chars[1] \o Str(Tail(chars))

\* The deltas of a list joined: fullResponse after all of them.
RECURSIVE JoinDeltas(_)
JoinDeltas(deltas) ==
    IF deltas = <<>> THEN "" ELSE Str(Head(deltas)) \o JoinDeltas(Tail(deltas))

\* The response bodies an upstream sends: a delta record and the sentinel;
\* two delta records, the second not terminated; a record cut short and a
\* delta record; the sentinel alone.
StreamBodies ==
    {JoinLines(<<DataMarker \o ChunkJSON(<<"H", "i">>),
                 DataMarker \o DoneText>>, TRUE),
     JoinLines(<<DataMarker \o ChunkJSON(<<"H", "i">>),
                 DataMarker \o ChunkJSON(<<"H", "i">>)>>, FALSE),
     JoinLines(<<DataMarker \o <<"{", "H">>,
                 DataMarker \o ChunkJSON(<<"H", "i">>)>>, TRUE),
     JoinLines(<<DataMarker \o DoneText>>, TRUE)}

\* The ends of the fragments reader.read() delivers here: the network hands
\* the body over line by line (SpecStream covers every other boundary).
FragmentEnds(text, pos) ==
    {n \in (pos + 1)..Len(text) : text[n] = Newline \/ n = Len(text)}

\* trimHistory() seen on the insertion numbers: the synthesized system
\* message is a new message, the kept ones are the objects they were.
TrimIds(ids, log, sys, fc, maxHist) ==
    LET hasSystemContext == TruthyStr(sys) \/ TruthyStr(fc)
        maxMessages == IF hasSystemContext THEN maxHist - 1 ELSE maxHist
    IN  IF Len(ids) > maxMessages
           THEN [ids |-> (IF hasSystemContext THEN <<Len(log) + 1>> ELSE <<>>)
                         \o SliceLast(ids, maxMessages),
                 log |-> IF hasSystemContext
                            THEN Append(log, Msg("system", FullContext(sys, fc)))
                            ELSE log]
           ELSE [ids |-> ids, log |-> log]

\* assistantMessage.content += delta in sendStream: the write goes to the
\* object the call pushed, wherever it is in the history, if it still is.
WriteOwn(conv, ids, own, text) ==
    [k \in 1..Len(conv) |->
        IF ids[k] = own THEN [conv[k] EXCEPT !.content = text] ELSE conv[k]]

\* this.conversation[this.conversation.length - 1].content = fullResponse
\* in sendStreamWithCallbacks: the write goes to the last message.
WriteLast(conv, text) == [conv EXCEPT ![Len(conv)].content = text]

\* A streamWithCallbacks that lets every error through.
StreamWithCallbacksRethrows(method, onError) == FALSE

\* streamWithCallbacks' catch: the error goes to onError when the caller
\* gave one and is swallowed; sendStream has no catch.
StreamWithCallbacksCatches(method, onError) ==
    method = "sendStreamWithCallbacks" /\ onError

\* An Agent with a small history limit, with or without a system message
\* and an API key, its history empty, no streaming call made yet.
InitSendStream ==
    /\ endpointMaxBatch = 0
    /\ other = NoAgent
    /\ transport = NoTransport
    /\ LaterIdle
    /\ sendsLeft = MaxTurns
    /\ \E apiKey \in {"", "key"}, sys \in {NoneStr, Some("S")},
          mh \in 1..MaxHist :
          Constructed([systemMessage |-> sys, temperature |-> NoneNum,
                       maxTokens |-> NoneNum, maxHistoryLength |-> Some(mh),
                       maxToolIterations |-> Some(1)], apiKey)
    /\ CallIdle
    /\ StreamIdle

\* What a streaming call and the calls around it leave alone.
StreamFrame ==
    UNCHANGED <<config, systemMessage, friendContext, maxHistoryLength,
                maxToolIterations, tools, ctor, endpointMaxBatch, other,
                transport, lastUpdate, toolRun, routes, second, sendsLeft,
                callVars, cut>>

\* sendStream(message) / sendStreamWithCallbacks(message, onChunk, onError)
\* up to the transport call: the configuration check, then the two pushes.
StreamBegin ==
    /\ streaming.phase = "idle"
    /\ \E method \in {"sendStream", "sendStreamWithCallbacks"},
          onError \in BOOLEAN, body \in StreamBodies :
          /\ onError => method = "sendStreamWithCallbacks"
          /\ IF ~hasApiKey(config)
                THEN /\ streaming' =
                            [streaming EXCEPT
                                !.phase = "threw", !.method = method,
                                !.onError = onError, !.base = conversation,
                                !.error = "Configuration error: apiKey: API key is required"]
                     /\ UNCHANGED <<conversation, streamVars>>
                ELSE /\ conversation' =
                            conversation \o <<Msg("user", StreamUserText),
                                              Msg("assistant", "")>>
                     /\ streaming' =
                            [streaming EXCEPT
                                !.phase = "fetch", !.method = method,
                                !.onError = onError, !.base = conversation,
                                !.own = Len(streaming.log) + 2,
                                !.ids = @ \o <<Len(streaming.log) + 1,
                                               Len(streaming.log) + 2>>,
                                !.log = @ \o <<Msg("user", StreamUserText),
                                               Msg("assistant", "")>>]
                     /\ streamText' = body
                     /\ streamPos' = 0
                     /\ decoder' = NewDecoder
                     /\ streamPc' = "idle"
                     /\ UNCHANGED cut
    /\ StreamFrame

\* The streaming call ends normally: trimHistory() runs.
StreamReturns(conv, s) ==
    LET t == TrimIds(s.ids, s.log, systemMessage, friendContext,
                     maxHistoryLength) IN
    /\ conversation' = TrimHistory(conv, systemMessage, friendContext,
                                   maxHistoryLength)
    /\ streaming' = [s EXCEPT !.phase = "ended", !.trimmed = TRUE,
                              !.ids = t.ids, !.log = t.log]

\* An error leaves streamChat: streamWithCallbacks hands it to onError and
\* returns, after which trimHistory() runs; otherwise it reaches the caller
\* of the streaming call.
StreamFailsWith(conv, s, error) ==
    IF StreamWithCallbacksCatches(s.method, s.onError)
       THEN StreamReturns(conv, [s EXCEPT !.failed = TRUE, !.reported = error])
       ELSE /\ conversation' = conv
            /\ streaming' = [s EXCEPT !.phase = "threw", !.failed = TRUE,
                                      !.error = error]

\* fetchWithTimeout fails, the status is not ok or the body cannot be read.
StreamFetchFails ==
    /\ streaming.phase = "fetch"
    /\ \E failure \in {"Request timed out", "MiniMax API error",
                       "Response body is not readable"} :
          StreamFailsWith(conversation, streaming, failure)
    /\ UNCHANGED streamVars
    /\ StreamFrame

\* The response arrives with an ok status and a body: the read loop starts.
StreamHeaders ==
    /\ streaming.phase = "fetch"
    /\ streaming' = [streaming EXCEPT !.phase = "reading"]
    /\ streamPc' = "reading"
    /\ UNCHANGED <<conversation, streamText, streamPos, decoder>>
    /\ StreamFrame

\* reader.read() delivers a fragment: the decoder yields the chunks of its
\* complete lines, the streaming call accumulates their content deltas into
\* the history; on the sentinel the generator returns and the call ends.
StreamRead ==
    /\ streaming.phase = "reading"
    /\ \E n \in FragmentEnds(streamText, streamPos) :
          LET st == DecodeFragment(decoder,
                                   SubSeq(streamText, streamPos + 1, n))
              deltas == SendStreamDeltas(SubSeq(st.chunks,
                                                Len(decoder.chunks) + 1,
                                                Len(st.chunks)))
              s == [streaming EXCEPT !.full = @ \o JoinDeltas(deltas)]
          IN  /\ streamPos' = n
              /\ decoder' = st
              /\ streamPc' = IF st.returned THEN "done" ELSE "reading"
              /\ IF deltas = <<>>
                    THEN IF st.returned
                            THEN StreamReturns(conversation, s)
                            ELSE /\ streaming' = s
                                 /\ UNCHANGED conversation
                 ELSE IF streaming.method = "sendStream"
                    THEN LET written == WriteOwn(conversation, s.ids, s.own,
                                                 s.full) IN
                         IF st.returned
                            THEN StreamReturns(written, s)
                            ELSE /\ streaming' = s
                                 /\ conversation' = written
                 ELSE IF conversation = <<>>
                    THEN StreamFailsWith(conversation,
                             [streaming EXCEPT
                                 !.full = @ \o Str(Head(deltas))],
                             "Cannot set properties of undefined")
                 ELSE IF st.returned
                    THEN StreamReturns(WriteLast(conversation, s.full), s)
                    ELSE /\ streaming' = s
                         /\ conversation' = WriteLast(conversation, s.full)
    /\ UNCHANGED <<streamText>>
    /\ StreamFrame

\* reader.read() reports done: the generator ends and the call with it.
StreamReadEnd ==
    /\ streaming.phase = "reading"
    /\ streamPos = Len(streamText)
    /\ streamPc' = "done"
    /\ StreamReturns(conversation, streaming)
    /\ UNCHANGED <<streamText, streamPos, decoder>>
    /\ StreamFrame

\* reader.read() rejects: the connection was lost while the body was read.
StreamReadFails ==
    /\ streaming.phase = "reading"
    /\ StreamFailsWith(conversation, streaming, "terminated")
    /\ UNCHANGED streamVars
    /\ StreamFrame

\* The streaming call has been made.
StreamStarted == streaming.phase # "idle"

\* clearHistory() from another caller of the same Agent.
StreamClearHistory ==
    /\ conversation # <<>>
    /\ conversation' = <<>>
    /\ streaming' = [streaming EXCEPT
                        !.ids = <<>>,
                        !.disturbed = @ \/ StreamStarted]
    /\ UNCHANGED streamVars
    /\ StreamFrame

\* A send call of another request on the same Agent commits its turn: the
\* two pushes and the trim.
OtherTurn ==
    /\ hasApiKey(config)
    /\ streaming.others < MaxOtherTurns
    /\ LET pushed == <<Msg("user", SecondText), Msg("assistant", SecondAnswer)>>
           n == Len(streaming.log)
           t == TrimIds(streaming.ids \o <<n + 1, n + 2>>,
                        streaming.log \o pushed, systemMessage, friendContext,
                        maxHistoryLength)
       IN  /\ conversation' = CommitTurn(conversation, <<>>, SecondText,
                                         SecondAnswer, systemMessage,
                                         friendContext, maxHistoryLength)
           /\ streaming' = [streaming EXCEPT
                               !.ids = t.ids, !.log = t.log,
                               !.others = @ + 1,
                               !.disturbed = @ \/ StreamStarted]
    /\ UNCHANGED streamVars
    /\ StreamFrame

NextSendStream ==
    \/ StreamBegin
    \/ StreamFetchFails
    \/ StreamHeaders
    \/ StreamRead
    \/ StreamReadEnd
    \/ StreamReadFails
    \/ StreamClearHistory
    \/ OtherTurn

SpecSendStream == InitSendStream /\ [][NextSendStream]_vars

(***************************************************************************)
(* Properties.                                                             *)
(***************************************************************************)
\* A send call has just returned an answer / has just thrown.
SendReturned == pc = "settled" /\ sendResult.status = "ok"
SendThrew == pc = "settled" /\ sendResult.status = "error"

\* The number of non-system entries trimHistory keeps.
RoomForEntries ==
    IF TruthyStr(systemMessage) \/ TruthyStr(friendContext)
       THEN maxHistoryLength - 1 ELSE maxHistoryLength

\* No tool-role message and no assistant message carrying tool calls.
NoScaffolding(history) ==
    \A i \in 1..Len(history) :
        history[i].role # "tool" /\ history[i].tool_calls = <<>>

\* C1 (history bound, P1): after each send call that returns, the history
\* holds at most maxHistoryLength messages, for every maxHistoryLength >= 1
\* and with or without a system or friend-context text.
C1_HistoryBound ==
    SendReturned => Len(conversation) <= maxHistoryLength

\* C2 (iteration bound, P4): a send call never issues more than
\* maxToolIterations requests, and one whose every response carried tool
\* calls (each request was followed by a tool round) ends after exactly
\* maxToolIterations requests and rounds with the max-iterations error
\* naming that limit.
C2_IterationBound ==
    /\ requests <= maxToolIterations
    /\ (pc = "settled" /\ requests > 0 /\ rounds = requests) =>
           /\ requests = maxToolIterations
           /\ sendResult = [status |-> "error", value |-> "",
                            error |-> MaxIterationsError(maxToolIterations)]

\* C3 as claimed (ephemeral scaffolding, P5): after a send call that
\* succeeds after one or more tool rounds the history ends with the two
\* messages the turn added, the user message followed by the final answer,
\* and holds no tool scaffolding.
C3_TwoMessagesAdded ==
    (SendReturned /\ rounds >= 1) =>
        /\ Len(conversation) >= 2
        /\ SubSeq(conversation, Len(conversation) - 1, Len(conversation))
               = <<Msg("user", userMessage), Msg("assistant", sendResult.value)>>
        /\ NoScaffolding(conversation)

\* C3 as amended: after a send call that succeeds after one or more tool
\* rounds the history holds no tool scaffolding and ends with the final
\* answer; the user message precedes it unless trimming leaves room for one
\* non-system entry only, and then the user message is gone.  Every entry
\* before them was in the history before the call or is a system message.
C3_EphemeralScaffolding ==
    (SendReturned /\ rounds >= 1) =>
        LET n == Len(conversation)
            user == Msg("user", userMessage)
            answer == Msg("assistant", sendResult.value)
            kept == IF RoomForEntries = 1 THEN 1 ELSE 2
        IN  /\ NoScaffolding(conversation)
            /\ n >= kept
            /\ conversation[n] = answer
            /\ IF RoomForEntries = 1
                  THEN \A i \in 1..n : conversation[i] # user
                  ELSE conversation[n - 1] = user
            /\ \A i \in 1..(n - kept) :
                   \/ conversation[i].role = "system"
                   \/ \E j \in 1..Len(histBefore) : histBefore[j] = conversation[i]

\* A send call returned after a tool round, on top of an earlier turn.
C3_Witness ==
    /\ SendReturned
    /\ rounds >= 1
    /\ histBefore # <<>>
    /\ Len(conversation) >= 3

\* C5 (failed turn): when a send call throws (max iterations, transport,
\* timeout, response shape; in the first or a later iteration) it returns no
\* answer and the history is what it was before the call.
C5_FailedTurnLeavesHistory ==
    SendThrew => /\ conversation = histBefore
                 /\ sendResult.value = ""

\* A send call failed after a tool round had run, on a non-empty history:
\* once by exhausting its iterations, once by a transport failure.
C5_Witness ==
    /\ SendThrew
    /\ rounds >= 1
    /\ histBefore # <<>>
    /\ sendResult.error \in {MaxIterationsError(maxToolIterations),
                             "Request timed out"}

\* The send loop went on after its last tool round: its next request is out,
\* or the call has ended in another way than by the exception of that round
\* (an answer, a failed request, or the loop exhausting its iterations).
LoopWentOn ==
    \/ pc = "awaiting"
    \/ /\ pc = "settled"
       /\ sendResult.error # ArgumentsSyntaxError

\* C4 (tool order preservation, P2): executeTools, for every batch of N
\* requests whatever its mix of unknown names, unparsable or schema-invalid
\* arguments and throwing or succeeding tools, returns exactly N results,
\* the i-th carrying the id and name of the i-th request.
C4_ToolOrderPreserved ==
    lastExec.called =>
        /\ ~lastExec.threw
        /\ Len(lastExec.results) = Len(lastExec.batch)
        /\ \A i \in 1..Len(lastExec.batch) :
               /\ lastExec.results[i].toolCallId = lastExec.batch[i].id
               /\ lastExec.results[i].toolName = lastExec.batch[i].function.name

\* C6 (unparsable arguments are contained): for a request whose arguments
\* are not valid JSON executeTools produces a result with success = FALSE
\* and an error text, does not invoke the tool, processes the rest of the
\* batch, and the send loop goes on.
C6_UnparsableArgumentsContained ==
    lastExec.called =>
        \A i \in 1..Len(lastExec.batch) :
            ~JSONParse(lastExec.batch[i].function.arguments).ok =>
                /\ ~lastExec.threw
                /\ Len(lastExec.results) = Len(lastExec.batch)
                /\ ~lastExec.results[i].success
                /\ lastExec.results[i].error # ""
                /\ \A k \in 1..Len(lastExec.invoked) :
                       lastExec.invoked[k] # lastExec.batch[i].id
                /\ LoopWentOn

\* C7 (unknown tool name is contained, Scenario D): a request naming an
\* unregistered tool yields a result with success = FALSE and the error
\* "Tool '<name>' not found", and the send loop goes on instead of throwing.
C7_UnknownToolContained ==
    lastExec.called =>
        \A i \in 1..Len(lastExec.batch) :
            lastExec.batch[i].function.name \notin tools =>
                /\ ~lastExec.threw
                /\ Len(lastExec.results) = Len(lastExec.batch)
                /\ lastExec.results[i] =
                       ToolResult(lastExec.batch[i], FALSE, JSONNull,
                                  "Tool '" \o lastExec.batch[i].function.name
                                           \o "' not found")
                /\ LoopWentOn

\* What the decoder has let out: the chunks it yielded, the deltas
\* sendStream makes of them, the payloads it handed to the chunk parser and
\* whether it ended on the sentinel.
DecoderOutput(st) ==
    [chunks |-> st.chunks, deltas |-> SendStreamDeltas(st.chunks),
     parsed |-> st.parsed, returned |-> st.returned]

\* C8 (stream reassembly, P3): however the text is cut into fragments, the
\* decoder yields the same chunks, and so the same deltas, as when the text
\* arrives as one fragment; the same payloads reach the chunk parser and the
\* stream ends on the same line.
C8_StreamReassembly ==
    streamPc = "done" =>
        DecoderOutput(decoder)
            = DecoderOutput(DecodeFragment(NewDecoder, streamText))

\* A stream was decoded to its sentinel after a fragment boundary fell
\* inside the 'data: ' marker of a record that was then decoded.
C8_Witness ==
    /\ streamPc = "done"
    /\ cut = "marker"
    /\ decoder.returned
    /\ decoder.parsed # <<>>

RECURSIVE ExpectedDeltasFrom(_, _)
ExpectedDeltasFrom(lines, i) ==
    IF i > Len(lines) THEN <<>>
    ELSE IF ~StartsWithData(lines[i]) THEN ExpectedDeltasFrom(lines, i + 1)
    ELSE IF Slice6(lines[i]) = DoneText THEN <<>>
    ELSE (IF IsChunkJSON(Slice6(lines[i]))
             /\ DeltaOfJSON(Slice6(lines[i])) # <<>>
             THEN <<DeltaOfJSON(Slice6(lines[i]))>> ELSE <<>>)
         \o ExpectedDeltasFrom(lines, i + 1)

ExpectedDeltas(text) ==
    LET lines == SplitLines(text, 1, <<>>) IN
    ExpectedDeltasFrom(SubSeq(lines, 1, Len(lines) - 1), 1)

\* C9 (data records are decoded and delivered, Scenario C): when the stream
\* has ended, sendStream has yielded exactly one delta for every
\* newline-terminated well-formed data record with a non-empty content
\* delta that came before the sentinel, in order.
C9_DataRecordsDelivered ==
    streamPc = "done" =>
        SendStreamDeltas(decoder.chunks) = ExpectedDeltas(streamText)

\* C10 (invalid configuration fails construction): a constructor call with
\* an option outside its declared range fails; it does not hand back an
\* Agent whose other options were replaced by the defaults.
C10_InvalidOptionsFailConstruction ==
    (ctor.done /\ ~AgentOptionsSchemaOK(ctor.options)) =>
        /\ ctor.threw
        /\ ctor.options.systemMessage.present =>
               systemMessage = ctor.options.systemMessage.v

\* The module configuration the first Agent's own construction leaves when
\* no other Agent exists.
ConfigAlone == ConstructorConfig(ctor.options, ImportedConfig("key"))

\* C11 (agent isolation): whatever calls on a second Agent are interleaved,
\* the temperature and max_tokens the first Agent places in its requests are
\* those it sends when it is alone in the process, and its tools are those
\* it was constructed with.
C11_AgentIsolation ==
    /\ tools = RegisteredTools
    /\ outbound.sent =>
           /\ outbound.temperature = ConfigAlone.temperature
           /\ outbound.max_tokens = ConfigAlone.maxTokens

\* C12 (timeout on every transport call): no transport call, streaming or
\* not, is still waiting on the remote endpoint, or has completed, later
\* than its timeout; a call that ran out of time has failed.
C12_TimeoutOnEveryCall ==
    transport.phase \in PendingPhases \cup {"done"} =>
        transport.elapsed <= transport.timeout

\* The errors of a failed transport call.
TransportErrors == {"Request timed out", "MiniMax API error", "ZodError"}

\* C13 (no retry): a send call issues at most one transport request per loop
\* iteration, and when a transport call fails the call ends there: the
\* failed request is its last one and no tool runs after it.
C13_NoRetry ==
    /\ requests <= rounds + 1
    /\ requests <= maxToolIterations
    /\ (SendThrew /\ sendResult.error \in TransportErrors) =>
           requests = rounds + 1

\* A send call failed on the transport call of its second iteration.
C13_Witness ==
    /\ SendThrew
    /\ sendResult.error = "MiniMax API error"
    /\ requests = 2
    /\ rounds = 1

\* The ids of the requests whose tool was invoked by the last executeTools.
InvokedIds == {lastExec.invoked[k] : k \in 1..Len(lastExec.invoked)}

\* executeTools got as far as request i of its batch: no request up to i
\* made JSON.parse throw.
Reached(i) ==
    \A k \in 1..i : JSONParse(lastExec.batch[k].function.arguments).ok

\* The parsed arguments of request i satisfy the input schema of its tool.
ArgumentsValid(i) ==
    LET call == lastExec.batch[i].function
        args == JSONParse(call.arguments).value
    IN  \/ call.name = "calculator" /\ "expression" \in DOMAIN args
        \/ call.name = "shopping_search" /\ "searchTerm" \in DOMAIN args

\* C14 (validation gates execution): a tool is invoked only for a request
\* whose parsed arguments satisfy its input schema; for a request of a
\* registered tool whose parsed arguments violate the schema the tool is not
\* invoked and the result is a failure whose error describes the violation.
C14_ValidationGatesExecution ==
    lastExec.called =>
        \A i \in 1..Len(lastExec.batch) :
            LET call == lastExec.batch[i] IN
            /\ call.id \in InvokedIds =>
                   /\ Reached(i)
                   /\ call.function.name \in tools
                   /\ ArgumentsValid(i)
            /\ (Reached(i) /\ call.function.name \in tools
                    /\ ~ArgumentsValid(i)) =>
                   /\ call.id \notin InvokedIds
                   /\ Len(lastExec.results) >= i
                   /\ lastExec.results[i].toolCallId = call.id
                   /\ ~lastExec.results[i].success
                   /\ lastExec.results[i].result = JSONNull
                   /\ lastExec.results[i].error =
                          "Invalid arguments: expression: Required"

\* A batch held a calculator request without `expression` next to one with
\* it: the first was refused, the second invoked.
C14_Witness ==
    /\ lastExec.called
    /\ Len(lastExec.batch) = 2
    /\ ~lastExec.threw
    /\ ~ArgumentsValid(1)
    /\ lastExec.batch[1].function.name = "calculator"
    /\ ~lastExec.results[1].success
    /\ lastExec.invoked = <<lastExec.batch[2].id>>

\* The tool of request i was invoked and threw.
ToolThrew(i) ==
    LET call == lastExec.batch[i] IN
    /\ call.id \in InvokedIds
    /\ ToolExecute(call.function.name,
                   JSONParse(call.function.arguments).value).threw

WellShaped(messages) ==
    \A k \in 1..Len(messages) :
        LET calls == messages[k].tool_calls
            n == Len(calls)
        IN  /\ (messages[k].role = "assistant" /\ n > 0) =>
                   /\ k + n <= Len(messages)
                   /\ \A i \in 1..n :
                          /\ messages[k + i].role = "tool"
                          /\ messages[k + i].tool_call_id = calls[i].id
                   /\ k + n < Len(messages) =>
                          messages[k + n + 1].role # "tool"
            /\ messages[k].role = "tool" =>
                   \E j \in 1..(k - 1) :
                       /\ messages[j].role = "assistant"
                       /\ k - j <= Len(messages[j].tool_calls)

IsPrefix(short, long) ==
    /\ Len(short) <= Len(long)
    /\ SubSeq(long, 1, Len(short)) = short

\* C16 (shape of the working message list): the message list of every
\* request is well shaped (an assistant message with N tool calls is
\* followed at once by exactly N tool messages carrying, in order, the ids
\* of its calls), and the message list of each request of a turn extends
\* that of the request before it.
C16_WorkingListShape ==
    /\ [](pc = "awaiting" => WellShaped(currentMessages))
    /\ [][(pc = "awaiting" /\ pc' = "awaiting") =>
              IsPrefix(currentMessages, currentMessages')]_vars

\* The request after a tool round of two calls is out.
C16_Witness ==
    /\ pc = "awaiting"
    /\ rounds = 1
    /\ Len(lastExec.batch) = 2
    /\ Len(currentMessages) >= 5

\* The positions of the system-role messages of a list.
SystemPositions(messages) ==
    {k \in 1..Len(messages) : messages[k].role = "system"}

\* C17 (exactly one current system message per request): the message list of
\* every request holds the synthesized system message exactly once, as its
\* first element, when the system text or the context block is non-empty,
\* and no system-role message otherwise.
C17_OneSystemMessage ==
    pc = "awaiting" =>
        LET context == FullContext(systemMessage, friendContext) IN
        IF TruthyStr(context)
           THEN /\ SystemPositions(currentMessages) = {1}
                /\ currentMessages[1].content = context
           ELSE SystemPositions(currentMessages) = {}

\* The most recent n entries of a history, in their order.
MostRecent(history, n) ==
    SubSeq(history, Len(history) - n + 1, Len(history))

\* C18 (trim is pure recency): when the trim at the end of a send call
\* changes the history, what it leaves is the synthesized system message (if
\* the system text or the context block is non-empty) followed by exactly
\* the most recent maxHistoryLength - 1 entries, or exactly the most recent
\* maxHistoryLength entries when there is no system message.
C18_TrimIsPureRecency ==
    SendReturned =>
        LET untrimmed == histBefore \o <<Msg("user", userMessage),
                                         Msg("assistant", sendResult.value)>>
            context == FullContext(systemMessage, friendContext)
        IN  conversation # untrimmed =>
                conversation =
                    (IF TruthyStr(context)
                        THEN <<Msg("system", context)>> ELSE <<>>)
                    \o MostRecent(untrimmed, RoomForEntries)

\* The payloads of the data records among the lines from i on, the sentinel
\* left out; up to the first sentinel only when `toSentinel`.
RECURSIVE RecordPayloads(_, _, _)
RecordPayloads(lines, i, toSentinel) ==
    IF i > Len(lines) THEN <<>>
    ELSE IF ~StartsWithData(lines[i])
        THEN RecordPayloads(lines, i + 1, toSentinel)
    ELSE IF Slice6(lines[i]) = DoneText
        THEN (IF toSentinel THEN <<>>
              ELSE RecordPayloads(lines, i + 1, toSentinel))
    ELSE <<Slice6(lines[i])>> \o RecordPayloads(lines, i + 1, toSentinel)

\* The newline-terminated lines of a text.
CompleteLines(text) ==
    LET lines == SplitLines(text, 1, <<>>) IN SubSeq(lines, 1, Len(lines) - 1)

\* C19 (terminal sentinel ends the stream): once the decoder has processed
\* the line 'data: [DONE]' the stream has ended normally, and nothing that
\* follows the sentinel, in the same fragment or in a later one, was decoded
\* or yielded: the records handed to the chunk parser are those before it.
C19_SentinelEndsStream ==
    decoder.returned =>
        /\ streamPc = "done"
        /\ decoder.parsed = RecordPayloads(CompleteLines(streamText), 1, TRUE)
        /\ Len(decoder.chunks) <= Len(decoder.parsed)

\* The sentinel was processed in a fragment that held a data record after it.
C19_Witness ==
    /\ decoder.returned
    /\ streamPos = Len(streamText)
    /\ RecordPayloads(CompleteLines(streamText), 1, FALSE) # decoder.parsed

\* The payloads of the yielded chunks.
YieldedPayloads == [k \in 1..Len(decoder.chunks) |-> decoder.chunks[k].text]

\* C20 (malformed stream records are skipped, not fatal): when the text
\* holds a data record whose payload cannot be parsed, the stream still ends
\* without an error and the chunks yielded are the well-formed data records
\* before the sentinel, in order.
C20_MalformedRecordsSkipped ==
    LET records == RecordPayloads(CompleteLines(streamText), 1, TRUE) IN
    (streamPc = "done" /\ \E k \in 1..Len(records) : ~IsChunkJSON(records[k])) =>
        YieldedPayloads = SelectSeq(records, IsChunkJSON)

\* The text after the last newline of a text.
LastSegment(text) ==
    LET lines == SplitLines(text, 1, <<>>) IN lines[Len(lines)]

\* C30 (an unterminated last record is dropped): when the body ends without
\* a terminal sentinel, the text after the last newline is still in the
\* buffer and was never handed to the chunk parser nor yielded, even when it
\* is a complete well-formed data record: the records decoded are those of
\* the newline-terminated lines, and the stream ends without an error.
C30_UnterminatedRecordDropped ==
    (streamPc = "done" /\ ~decoder.returned) =>
        /\ decoder.buffer = LastSegment(streamText)
        /\ decoder.parsed = RecordPayloads(CompleteLines(streamText), 1, FALSE)
        /\ Len(decoder.chunks) <= Len(decoder.parsed)

\* The body ended with a well-formed data record that no newline follows.
C30_Witness ==
    /\ streamPc = "done"
    /\ ~decoder.returned
    /\ StartsWithData(decoder.buffer)
    /\ IsChunkJSON(Slice6(decoder.buffer))
    /\ DeltaOfJSON(Slice6(decoder.buffer)) # <<>>

\* A step of an updateOptions call.
UpdateStep == lastUpdate'.left < lastUpdate.left

\* A step in which a send call returns its answer.
CommitStep == pc = "awaiting" /\ pc' = "settled" /\ sendResult'.status = "ok"

C29_UpdateAllOrNothing ==
    [][(UpdateStep /\ ~AgentOptionsSchemaOK(lastUpdate'.options)) =>
          /\ UNCHANGED <<systemMessage, maxHistoryLength, maxToolIterations,
                         config>>
          /\ ~lastUpdate'.threw]_vars

\* A call passed a new system text and a new history limit together with a
\* temperature out of range.
C29_Witness ==
    /\ lastUpdate.left < MaxUpdates
    /\ ~AgentOptionsSchemaOK(lastUpdate.options)
    /\ lastUpdate.options.systemMessage.present
    /\ lastUpdate.options.systemMessage.v # systemMessage
    /\ lastUpdate.options.maxHistoryLength.present
    /\ lastUpdate.options.maxHistoryLength.v # maxHistoryLength

\* The position of the request with this id in the batch under way.
RequestIndex(id) ==
    CHOOSE k \in 1..Len(toolRun.batch) : toolRun.batch[k].id = id

\* C21 (sequential tool execution): within one executeTools batch at most one
\* tool is executing at any moment, the tools are started in request order,
\* and while the tool of request i executes every request before i has its
\* result, so the execute of a request starts only after that of the request
\* before it has settled.
C21_SequentialExecution ==
    /\ Cardinality(toolRun.running) <= 1
    /\ \A a, b \in 1..Len(toolRun.started) :
           a < b => RequestIndex(toolRun.started[a])
                        < RequestIndex(toolRun.started[b])
    /\ \A id \in toolRun.running :
           /\ RequestIndex(id) = toolRun.i
           /\ Len(toolRun.acc.results) = toolRun.i - 1
           /\ toolRun.started[Len(toolRun.started)] = id

\* The second tool of a batch executes, the first has settled.
C21_Witness ==
    /\ pc = "executing"
    /\ Len(toolRun.batch) = 2
    /\ toolRun.running = {toolRun.batch[2].id}
    /\ toolRun.started = <<toolRun.batch[1].id, toolRun.batch[2].id>>
    /\ toolRun.acc.invoked = <<toolRun.batch[1].id>>

\* C22 (registry changes do not affect an in-flight turn): while a send is
\* under way, the tools advertised in each of its requests are those
\* registered when it started, and so are the tools its lookups find: a
\* request is answered "not found" exactly when its tool was not registered
\* at the start of the send.  In SpecRegistry the registry holds
\* RegisteredTools when the send starts.
C22_RegistryChangesDeferred ==
    /\ (pc \in {"awaiting", "executing"} /\ outbound.sent) =>
           outbound.tools = RegisteredTools
    /\ \A k \in 1..Len(toolRun.acc.results) :
           LET result == toolRun.acc.results[k] IN
           (result.error = "Tool '" \o result.toolName \o "' not found")
               <=> result.toolName \notin RegisteredTools

\* A request has just been received or answered.
RouteStep == routes'.last # routes.last \/ routes'.issued # routes.issued

\* C25 (session map lifecycle): the Agent of a key changes only when a chat
\* request for a key without Agent creates one, with empty history, or when
\* a DELETE for the key removes it; a chat request for a key that has an
\* Agent is served by that Agent, whose history it finds as the earlier
\* requests left it; a DELETE for a key without Agent answers 404 and
\* changes no session; an answered request adds its turn to the history of
\* the Agent that serves it.
C25_SessionLifecycle ==
    /\ [][\A k \in SessionKeys :
             routes'.agents[k] # routes.agents[k] =>
                 \/ /\ routes.agents[k] = 0
                    /\ routes'.last = [route |-> "chat", key |-> k,
                                       status |-> 0,
                                       agent |-> routes'.agents[k],
                                       created |-> TRUE]
                    /\ routes'.agents[k] = Len(routes.pool) + 1
                    /\ routes'.pool[routes'.agents[k]].conversation = <<>>
                 \/ /\ routes'.agents[k] = 0
                    /\ routes'.last = [route |-> "delete", key |-> k,
                                       status |-> 200,
                                       agent |-> routes.agents[k],
                                       created |-> FALSE]]_vars
    /\ [][(RouteStep /\ routes'.last.route = "chat"
              /\ routes'.last.status = 0
              /\ routes.agents[routes'.last.key] # 0) =>
             LET agent == routes.agents[routes'.last.key] IN
             /\ routes'.agents = routes.agents
             /\ routes'.last.agent = agent
             /\ ~routes'.last.created
             /\ Len(routes'.pool) = Len(routes.pool)
             /\ routes'.pool[agent].conversation
                    = routes.pool[agent].conversation]_vars
    /\ [][(RouteStep /\ routes'.last.route = "delete") =>
             IF routes.agents[routes'.last.key] = 0
                THEN /\ routes'.last.status = 404
                     /\ routes'.agents = routes.agents
                     /\ routes'.pool = routes.pool
                ELSE /\ routes'.last.status = 200
                     /\ routes'.agents[routes'.last.key] = 0]_vars
    /\ [][(RouteStep /\ routes'.last.route = "reply"
              /\ routes'.last.status = 200) =>
             LET agent == routes'.last.agent IN
             /\ routes'.agents = routes.agents
             /\ Len(routes'.pool[agent].conversation)
                    = Len(routes.pool[agent].conversation) + 2
             /\ IsPrefix(routes.pool[agent].conversation,
                         routes'.pool[agent].conversation)]_vars

\* A key was deleted, the next request for it created a second Agent, and
\* a later request for the key was served by that Agent and its history.
C25_Witness ==
    \E k \in SessionKeys :
        /\ routes.agents[k] = 2
        /\ routes.pool[1].conversation = <<>>
        /\ Len(routes.pool[2].conversation) = 4
        /\ routes.inflight = {}

\* The two messages a turn adds to the history.
TurnPair(message, answer) == <<Msg("user", message), Msg("assistant", answer)>>

\* The history after the two turns were committed one after the other.
CommittedInOrder(history, firstPair, secondPair) ==
    TrimHistory(TrimHistory(history \o firstPair, systemMessage, friendContext,
                            maxHistoryLength) \o secondPair,
                systemMessage, friendContext, maxHistoryLength)

StreamPair(text) == <<Msg("user", StreamUserText), Msg("assistant", text)>>

\* The caller gave sendStreamWithCallbacks an error callback.
WithErrorCallback ==
    streaming.method = "sendStreamWithCallbacks" /\ streaming.onError

\* C28, as stated (streaming turns are committed before they succeed and a
\* failure leaves them untrimmed): when the transport call or the stream of
\* a sendStream or sendStreamWithCallbacks call has failed and no other call
\* has written the history, the history is the one from before the call
\* followed by the user message and the assistant message with the text
\* that had arrived, and trimHistory was not run for the turn.
C28_FailedTurnStaysUntrimmed ==
    (streaming.failed /\ ~streaming.disturbed) =>
        /\ ~streaming.trimmed
        /\ conversation = streaming.base \o StreamPair(streaming.full)

\* C28, amended: the user message and an empty assistant message are in the
\* history while the transport call is under way.  A failure that reaches
\* the caller (sendStream; sendStreamWithCallbacks without an error
\* callback) leaves the two messages in place, the assistant one holding the
\* text accumulated so far, and trimHistory is not run.  A failure of
\* sendStreamWithCallbacks with an error callback is handed to the callback,
\* the call returns, and trimHistory is run as for a completed turn.
C28_FailedTurnTrimmedOnlyWhenSwallowed ==
    /\ (streaming.phase = "fetch" /\ ~streaming.disturbed) =>
           conversation = streaming.base \o StreamPair("")
    /\ (streaming.failed /\ ~WithErrorCallback) =>
           /\ streaming.phase = "threw"
           /\ streaming.error # ""
           /\ ~streaming.trimmed
           /\ ~streaming.disturbed =>
                  conversation = streaming.base \o StreamPair(streaming.full)
    /\ (streaming.failed /\ WithErrorCallback) =>
           /\ streaming.phase = "ended"
           /\ streaming.reported # ""
           /\ streaming.error = ""
           /\ streaming.trimmed
           /\ ~streaming.disturbed =>
                  conversation =
                      TrimHistory(streaming.base \o StreamPair(streaming.full),
                                  systemMessage, friendContext,
                                  maxHistoryLength)

\* A stream read failed under sendStreamWithCallbacks with an error
\* callback after an earlier turn: the call returned and the trim took the
\* oldest messages away.
C28_Witness ==
    /\ streaming.failed
    /\ WithErrorCallback
    /\ streaming.reported = "terminated"
    /\ ~streaming.disturbed
    /\ streaming.base # <<>>
    /\ conversation # streaming.base \o StreamPair(streaming.full)

C27_StreamedTextInOwnTurn ==
    (streaming.method = "sendStreamWithCallbacks"
        /\ streaming.phase = "ended" /\ ~streaming.failed) =>
        \A k \in 1..Len(conversation) :
            conversation[k].content =
                IF streaming.ids[k] = streaming.own
                   THEN JoinDeltas(ExpectedDeltas(streamText))
                   ELSE streaming.log[streaming.ids[k]].content

====
